---- MODULE Spec2Model ----
(***************************************************************************)
(* A state-machine model of the solar compiler's semantic core:            *)
(*   - CompilerContext (src/src/eval/context/mod.rs): memoised compilation *)
(*     of functions into the Function Store, lowering of expressions,      *)
(*     symbol resolution through scope, module and imports;                *)
(*   - FileContext (src/src/eval.rs): the tree-walking evaluator with its  *)
(*     Scope stack.                                                        *)
(* Every thread runs one call stack.  A step of a thread is one step of    *)
(* the function on top of its stack.                                       *)
(***************************************************************************)
EXTENDS Integers, Sequences, FiniteSets, TLC

(***************************************************************************)
(* Bounds of the exploration.                                              *)
(***************************************************************************)
\* top-level requests a driver thread issues
MaxRequests == 2
\* the project holds one let-function for every binding count 1..MaxBindings
MaxBindings == 2
\* nesting depth of eval_function calls explored (the evaluator has no cache)
MaxDepth == 2

Threads == {"t1", "t2"}

(***************************************************************************)
(* Values (src/src/value.rs) and the static expressions of the compiler.   *)
(***************************************************************************)
\* Value::String / Value::Bool / Value::Void; `s` is the text, `b` the flag.
StringValue(s) == [t |-> "String", s |-> s, b |-> FALSE]
BoolValue(b) == [t |-> "Bool", s |-> "", b |-> b]
VoidValue == [t |-> "Void", s |-> "", b |-> FALSE]

\* the name of a value's runtime type
type_as_str(v) == v.t

\* The TypeId of a slot of the Scope: Scope::push takes the name only, no
\* type is recorded for a local in this snapshot.
LocalType == "Local"

\* Instructions of the compiled tree.
Const(v) == [op |-> "Const", v |-> v]
GetLocalVar(slot) == [op |-> "GetLocalVar", slot |-> slot]
NewLocalVar(var_index, var_value, body) ==
    [op |-> "NewLocalVar", var_index |-> var_index, var_value |-> var_value, body |-> body]
FunctionCall(func, args) == [op |-> "FunctionCall", func |-> func, args |-> args]
FunctionValue(sym) == [op |-> "Function", sym |-> sym]

StaticExpression(instr, ty) == [instr |-> instr, ty |-> ty]

(***************************************************************************)
(* The AST handed over by the parser (external, immutable).                *)
(***************************************************************************)
StringLiteral(s) == [k |-> "Literal", lit |-> "StringLiteral", s |-> s, b |-> FALSE]
BoolLiteral(b) == [k |-> "Literal", lit |-> "Bool", s |-> "", b |-> b]
FullIdentifier(path) == [k |-> "FullIdentifier", path |-> path]
Tuple(values) == [k |-> "Tuple", values |-> values]
Call(function_name, args) == [k |-> "FunctionCall", function_name |-> function_name, args |-> args]
Let(definitions, body) == [k |-> "Let", definitions |-> definitions, body |-> body]
Def(ident, value) == [ident |-> ident, value |-> value]
Function(name, args, body) == [kind |-> "Function", name |-> name, args |-> args, body |-> body]

\* names of let bindings, in declaration order
BindingNames == <<"a", "b", "c", "d", "e">>

\* let a = "a", b = "b", ... in <last binding>, with n bindings
LetN(n) ==
    Let([i \in 1..n |-> Def(BindingNames[i], StringLiteral(BindingNames[i]))],
        FullIdentifier(<<BindingNames[n]>>))

IdApp == <<"app">>
IdLibA == <<"lib", "a">>
IdLibB == <<"lib", "b">>
IdLibASub == <<"lib", "a", "sub">>

\* items of the target module's file
AppItems ==
    << Function("lit", <<>>, StringLiteral("l")),
       Function("rec", <<>>, Call(<<"rec">>, <<>>)),
       Function("ping", <<>>, Call(<<"pong">>, <<>>)),
       Function("pong", <<>>, Call(<<"ping">>, <<>>)),
       Function("poly", <<"x">>, FullIdentifier(<<"x">>)),
       Function("outer", <<>>, Call(<<"poly">>, <<StringLiteral("o")>>)),
       Function("x", <<>>, StringLiteral("m")),
       Function("shadow", <<"x">>,
                Let(<<Def("y", FullIdentifier(<<"x">>)), Def("x", BoolLiteral(TRUE))>>,
                    Let(<<Def("x", FullIdentifier(<<"y">>))>>, FullIdentifier(<<"x">>)))),
       Function("nest", <<"x">>,
                Let(<<Def("a", Let(<<Def("x", StringLiteral("i"))>>, FullIdentifier(<<"x">>))),
                      Def("b", Tuple(<<Call(<<"lit">>, <<>>)>>))>>,
                    Call(<<"x">>, <<>>))),
       Function("callval", <<"x">>, Call(<<"x">>, <<StringLiteral("v")>>)),
       Function("letbad", <<"x">>,
                Let(<<Def("a", StringLiteral("a")), Def("b", Call(<<"callval">>, <<FullIdentifier(<<"a">>)>>))>>,
                    FullIdentifier(<<"b">>))),
       Function("bodybad", <<"x">>,
                Let(<<Def("a", StringLiteral("a"))>>, Call(<<"x">>, <<FullIdentifier(<<"a">>)>>))),
       Function("useext", <<>>, Call(<<"ext">>, <<>>)),
       Function("usedup", <<>>, Call(<<"dup">>, <<>>)),
       Function("qual", <<>>, Call(<<"ext", "sub">>, <<>>)),
       Function("buildin_identity", <<"x">>, StringLiteral("user")),
       Function("buildin_nope", <<"x">>, StringLiteral("user")),
       Function("callb", <<"buildin_identity">>,
                Call(<<"buildin_identity">>, <<FullIdentifier(<<"buildin_identity">>)>>)),
       Function("wrongb", <<"buildin_nope">>, Call(<<"buildin_nope">>, <<StringLiteral("a")>>)),
       Function("qualb", <<>>, Call(<<"buildin_identity", "sub">>, <<StringLiteral("a")>>)),
       Function("concat", <<>>,
                Call(<<"buildin_str_concat">>, <<StringLiteral("a"), StringLiteral("b")>>)),
       Function("argerr", <<>>,
                Call(<<"buildin_str_concat">>,
                     << StringLiteral("a"),
                        Tuple(<<Call(<<"callval">>, <<StringLiteral("s")>>)>>),
                        Tuple(<<Call(<<"lit">>, <<>>)>>) >>)),
       Function("argerr2", <<>>,
                Call(<<"missing">>, <<Tuple(<<Call(<<"callval">>, <<StringLiteral("s")>>)>>)>>)),
       Function("nf", <<>>, Call(<<"missing">>, <<>>)) >>
    \o [n \in 1..MaxBindings |-> Function("let" \o BindingNames[n], <<>>, LetN(n))]

\* name -> absolute base paths (SymbolResolver of the file)
AppImports ==
    ("ext" :> <<IdLibA>>) @@ ("dup" :> <<IdLibA, IdLibB>>) @@ ("x" :> <<IdLibA>>)
    @@ ("buildin_identity" :> <<IdLibA>>) @@ ("buildin_nope" :> <<IdLibA>>)
NoImports == [n \in {} |-> <<>>]

FileInfo(imports, items) == [imports |-> imports, ast |-> [items |-> items]]
Module(files) == [files |-> files]

\* GlobalModules: module path -> Module
Modules ==
    (IdApp :> Module(<<FileInfo(AppImports, AppItems)>>))
    @@ (IdLibA :> Module(<<FileInfo(NoImports,
            << Function("ext", <<>>, StringLiteral("e")),
               Function("dup", <<>>, StringLiteral("d")),
               Function("x", <<>>, StringLiteral("ix")),
               Function("buildin_identity", <<"x">>, StringLiteral("lib")),
               Function("buildin_nope", <<"x">>, StringLiteral("lib")) >>)>>))
    @@ (IdLibB :> Module(<<FileInfo(NoImports,
            << Function("dup", <<>>, StringLiteral("d2")) >>)>>))
    @@ (IdLibASub :> Module(<<FileInfo(NoImports,
            << Function("sub", <<>>, StringLiteral("s")),
               Function("ext", <<>>, StringLiteral("es")) >>)>>))

\* SymbolId: (module, file, item), file and item counted from 1
SymbolId(module, file, item) == <<module, file, item>>


(***************************************************************************)
(* Module Registry.                                                        *)
(***************************************************************************)
RECURSIVE ItemsNamed(_, _, _, _, _)
\* the functions called `name` among items i..Len(items) of one file
ItemsNamed(idmodule, file, items, name, i) ==
    IF i > Len(items) THEN <<>>
    ELSE (IF items[i].kind = "Function" /\ items[i].name = name
          THEN <<SymbolId(idmodule, file, i)>> ELSE <<>>)
         \o ItemsNamed(idmodule, file, items, name, i + 1)

RECURSIVE FilesNamed(_, _, _, _)
FilesNamed(idmodule, files, name, f) ==
    IF f > Len(files) THEN <<>>
    ELSE ItemsNamed(idmodule, f, files[f].ast.items, name, 1)
         \o FilesNamed(idmodule, files, name, f + 1)

\* Module::find: every declaration of the module with that name (the Err of
\* a miss is the empty list here: both callers only look at the matches)
ModuleFind(idmodule, name) == FilesNamed(idmodule, Modules[idmodule].files, name, 1)

\* CompilerContext::resolve_module: is the path a module of the registry?
ResolveModule(idpath) == idpath \in DOMAIN Modules

\* CompilerContext::get_symbol
GetSymbol(sym) == Modules[sym[1]].files[sym[2]].ast.items[sym[3]]

\* the Lookup compile_symbol builds for the file of a symbol
Lookup(sym) == [idmodule |-> sym[1], file |-> sym[2]]
LookupImports(lookup) == Modules[lookup.idmodule].files[lookup.file].imports

\* util::find_in_ast: the first function of the file with that name
FindInAst(lookup, name) ==
    LET found == ItemsNamed(lookup.idmodule, lookup.file,
                            Modules[lookup.idmodule].files[lookup.file].ast.items, name, 1)
    IN  IF found = <<>> THEN <<>> ELSE <<found[1]>>

(***************************************************************************)
(* Scope: a stack of (name, item); the item is the Value of the binding in *)
(* the evaluator and the slot index in the compiler.                       *)
(***************************************************************************)
ScopeNew == <<>>

ScopePush(values, name, item) == Append(values, [name |-> name, item |-> item])

ScopePop(values) == SubSeq(values, 1, Len(values) - 1)

\* find instead of rfind: the oldest entry with that name
ScopeGetOldest(values, name) ==
    LET hits == {i \in 1..Len(values) : values[i].name = name}
    IN  IF hits = {} THEN <<>>
        ELSE <<values[CHOOSE i \in hits : \A j \in hits : i <= j].item>>

\* rfind: the youngest entry with that name, as a list of none or one item
ScopeGet(values, name) ==
    LET hits == {i \in 1..Len(values) : values[i].name = name}
    IN  IF hits = {} THEN <<>>
        ELSE <<values[CHOOSE i \in hits : \A j \in hits : j <= i].item>>

\* the slot the compiler's Scope::push(name) hands out: the next index
NextSlot(values) == Len(values)

(***************************************************************************)
(* Function Store.                                                         *)
(***************************************************************************)
NoBody == StaticExpression(Const(VoidValue), "Void")

\* indices of the entries stored under the key
GetByKey(store, ssid) == {i \in 1..Len(store) : store[i].ssid = ssid}

\* reserve: a fresh index, marked Partial
Reserve(store, ssid) ==
    Append(store, [ssid |-> ssid, info |-> "Partial", args |-> <<>>, body |-> NoBody])

\* update_complete_function
UpdateCompleteFunction(store, id, types, body) ==
    [store EXCEPT ![id] = [ssid |-> @.ssid, info |-> "Complete", args |-> types, body |-> body]]

(***************************************************************************)
(* State.                                                                  *)
(***************************************************************************)
VARIABLES
    mode,       \* "compile": CompilerContext; "eval": FileContext
    live,       \* the threads that run
    functions,  \* CompilerContext.functions: the Function Store
    fnlock,     \* the RwLock around it: readers and writer
    stack,      \* per thread: the call stack, frames of unfinished calls
    ctl,        \* per thread: what the thread does next
    scopes,     \* per thread: the Scope of every function body in progress
    requests,   \* per thread: top-level requests issued
    reserved,   \* instrumentation: the SSID of every reserve, in order
    lowered,    \* instrumentation: the SSID of every body lowering started
    returned,   \* instrumentation: every successful return of compile
    letlog,     \* instrumentation, per thread: the last let that returned
    sc,         \* a Scope driven directly through push, pop and get
    pushed,     \* the (name, value) of every push on sc, in order
    popped,     \* the values the pops on sc returned
    lastget,    \* the last get on sc: the name and what it returned
    calllog,    \* instrumentation: what every call did with its name, in order
    stdout,     \* the output capability: the chunks written, in order
    stdin,      \* the input capability: the bytes not yet read
    console,    \* the Mutexes around the capabilities: who holds each
    iocalls,    \* per thread: built-in requests issued straight to the dispatcher
    readlog,    \* instrumentation: every readline that returned
    bres,       \* the last request to the dispatcher and its answer
    imp,        \* resolve_imports: the declarations, the position, the table
    mir         \* the Instruction Evaluator: the instruction and its outcome

\* what no step of a compilation or evaluation changes
fixed == <<mode, live, sc, pushed, popped, lastget,
           stdout, stdin, console, iocalls, readlog, bres, imp, mir>>

vars == <<fixed, functions, fnlock, stack, ctl, scopes, requests,
          reserved, lowered, returned, letlog, calllog>>

\* the compiler and the evaluator, apart from the Scope driven directly
program == <<functions, fnlock, stack, ctl, scopes, requests,
             reserved, lowered, returned, letlog, calllog>>

\* the console, the dispatcher requests, the import table, the evaluator
io == <<stdout, stdin, console, iocalls, readlog, bres, imp, mir>>

NoThread == "none"

Idle == [op |-> "idle"]
Fn == [op |-> "fn"]
Expr(e, lookup) == [op |-> "expr", e |-> e, lookup |-> lookup]
Dispatch == [op |-> "dispatch"]
Ok(val) == [op |-> "ret", ok |-> TRUE, val |-> val]
Err(err) == [op |-> "ret", ok |-> FALSE, err |-> err]
Panic(msg) == [op |-> "panic", msg |-> msg]

Top(t) == stack[t][Len(stack[t])]
Push(t, frame) == [stack EXCEPT ![t] = Append(@, frame)]
Pop(t) == [stack EXCEPT ![t] = SubSeq(@, 1, Len(@) - 1)]
SetTop(t, frame) == [stack EXCEPT ![t] = Append(SubSeq(@, 1, Len(@) - 1), frame)]

CurScope(t) == scopes[t][Len(scopes[t])]
SetScope(t, values) == [scopes EXCEPT ![t] = Append(SubSeq(@, 1, Len(@) - 1), values)]
DropScope(t) == [scopes EXCEPT ![t] = SubSeq(@, 1, Len(@) - 1)]

Running(t, op) == t \in live /\ ctl[t].op = op
InFrame(t, k) == stack[t] # <<>> /\ Top(t).k = k

ReleaseRead(t) == [fnlock EXCEPT !.readers = @ \ {t}]
ReleaseWrite == [fnlock EXCEPT !.writer = NoThread]


(***************************************************************************)
(* Candidate resolution of the compiler.                                   *)
(***************************************************************************)
TypeError(got, wanted) == [e |-> "TypeError", got |-> got, wanted |-> wanted, found |-> ""]
WrongBuildin(found) == [e |-> "WrongBuildin", got |-> "", wanted |-> "", found |-> found]

\* a candidate: a binding of the scope, or Value::Function(symbol)
ScopeItem(item) == [op |-> "Item", item |-> item]
FunctionCandidates(syms) == [i \in 1..Len(syms) |-> FunctionValue(syms[i])]

RECURSIVE ImportCandidates(_, _, _)
\* the loop over the base paths recorded for path[1]
ImportCandidates(path, imports, i) ==
    IF i > Len(imports) THEN <<>>
    ELSE LET idmodule == imports[i] \o Tail(path)
             symbol == path[1]
         IN  (IF ResolveModule(idmodule)
              THEN FunctionCandidates(ModuleFind(idmodule, symbol))
              ELSE <<>>)
             \o ImportCandidates(path, imports, i + 1)

\* resolve_symbol without the early return of the scope hit
resolve_symbol_no_return(path, lookup, scope) ==
    LET inscope == IF Len(path) = 1 THEN ScopeGet(scope, path[1]) ELSE <<>>
    IN  (IF inscope # <<>> THEN <<ScopeItem(inscope[1])>> ELSE <<>>)
        \o (IF Len(path) = 1
            THEN FunctionCandidates(ModuleFind(lookup.idmodule, path[1]))
            ELSE <<>>)
        \o (IF path[1] \in DOMAIN LookupImports(lookup)
            THEN ImportCandidates(path, LookupImports(lookup)[path[1]], 1)
            ELSE <<>>)

resolve_symbol(path, lookup, scope) ==
    LET inscope == IF Len(path) = 1 THEN ScopeGet(scope, path[1]) ELSE <<>>
    IN  IF inscope # <<>>
        THEN <<ScopeItem(inscope[1])>>
        ELSE (IF Len(path) = 1
              THEN FunctionCandidates(ModuleFind(lookup.idmodule, path[1]))
              ELSE <<>>)
             \o (IF path[1] \in DOMAIN LookupImports(lookup)
                 THEN ImportCandidates(path, LookupImports(lookup)[path[1]], 1)
                 ELSE <<>>)

\* a candidate as the StaticExpression the compiler hands on
FunctionType == "Function"
CandidateExpression(c) ==
    IF c.op = "Function" THEN StaticExpression(c, FunctionType)
    ELSE StaticExpression(GetLocalVar(c.item), LocalType)

(***************************************************************************)
(* The console: the output and input capabilities and their locks.         *)
(***************************************************************************)
\* b'\n'
NewLine == 10

\* the bytes that are text on their own, and the text each is
Letters == (97 :> "a") @@ (98 :> "b")

RECURSIVE FromUtf8(_)
\* String::from_utf8(s): the text of the bytes, all of them valid
FromUtf8(bytes) ==
    IF bytes = <<>> THEN "" ELSE Letters[Head(bytes)] \o FromUtf8(Tail(bytes))

ValidUtf8(bytes) == \A i \in 1..Len(bytes) : bytes[i] \in DOMAIN Letters

\* what the input can hold: two lines, an empty line first, no newline at
\* all, a byte that is no text, nothing
Inputs == { <<97, 98, 10, 98, 10>>, <<10, 97, 10>>, <<97>>, <<255, 10, 98, 10>>, <<>> }

\* a Mutex whose holder panicked
Poisoned == "poisoned"

\* io: Mutex<InterpreterContext> of the compiler; out, inp: the stdout and
\* stdin Mutexes of the evaluator
FreeConsole == [io |-> NoThread, out |-> NoThread, inp |-> NoThread]

\* Display of a Value
to_string(v) ==
    IF v.t = "String" THEN v.s
    ELSE IF v.t = "Bool" THEN (IF v.b THEN "true" ELSE "false")
    ELSE "void"

\* the call of buildin_print(args) and of buildin_readline(args), entered
PrintCall(args) == [op |-> "buildin_print", args |-> args, pc |-> "enter", i |-> 1]
ReadlineCall(args) ==
    [op |-> "buildin_readline", args |-> args, pc |-> "enter", s |-> <<>>,
     prompted |-> FALSE, start |-> <<>>]

\* one write!(out, ...) of call number iocalls[t] of the thread
Chunk(t, text) == [t |-> t, call |-> iocalls[t], op |-> ctl[t].op, s |-> text]

(***************************************************************************)
(* Built-in functions of the compiler.                                     *)
(***************************************************************************)
StartsWith(s, prefix) == Len(s) >= Len(prefix) /\ SubSeq(s, 1, Len(prefix)) = prefix

IsString(arg) == arg.instr.op = "Const" /\ arg.instr.v.t = "String"
TypeAsStr(arg) == IF arg.instr.op = "Const" THEN type_as_str(arg.instr.v) ELSE arg.ty

RECURSIVE StrConcat(_, _, _)
StrConcat(args, i, s) ==
    IF i > Len(args) THEN Ok(StaticExpression(Const(StringValue(s)), "String"))
    ELSE IF IsString(args[i]) THEN StrConcat(args, i + 1, s \o args[i].instr.v.s)
    ELSE Err(TypeError(TypeAsStr(args[i]), "String"))

\* the loop starting behind the first argument
buildin_str_concat_from_second(args) == StrConcat(args, 2, "")

buildin_str_concat(args) == StrConcat(args, 1, "")

buildin_identity(args) ==
    IF Len(args) # 1 THEN Panic("& is only implemented with 1 argument")
    ELSE Ok(args[1])

\* check_buildin_func looking at the first segment of any name
check_buildin_func_any_segment(func, args) ==
    IF Len(func.function_name) = 0 THEN <<>>
    ELSE LET fname == func.function_name[1]
         IN  IF ~StartsWith(fname, "buildin_") /\ ~StartsWith(fname, "Buildin_") THEN <<>>
             ELSE LET shortened == SubSeq(fname, Len("buildin_") + 1, Len(fname))
                  IN  CASE shortened = "str_concat" -> <<buildin_str_concat(args)>>
                        [] shortened = "identity" -> <<buildin_identity(args)>>
                        [] shortened = "readline" -> <<ReadlineCall(args)>>
                        [] shortened = "print" -> <<PrintCall(args)>>
                        [] OTHER -> <<Err(WrongBuildin(fname))>>

\* check_buildin_func answering None for an unknown name behind the prefix
check_buildin_func_unknown_none(func, args) ==
    IF Len(func.function_name) # 1 THEN <<>>
    ELSE LET fname == func.function_name[1]
         IN  IF ~StartsWith(fname, "buildin_") /\ ~StartsWith(fname, "Buildin_") THEN <<>>
             ELSE LET shortened == SubSeq(fname, Len("buildin_") + 1, Len(fname))
                  IN  CASE shortened = "str_concat" -> <<buildin_str_concat(args)>>
                        [] shortened = "identity" -> <<buildin_identity(args)>>
                        [] shortened = "readline" -> <<ReadlineCall(args)>>
                        [] shortened = "print" -> <<PrintCall(args)>>
                        [] OTHER -> <<>>

\* None is <<>>, Some(res) is <<res>>
check_buildin_func(func, args) ==
    IF Len(func.function_name) # 1 THEN <<>>
    ELSE LET fname == func.function_name[1]
         IN  IF ~StartsWith(fname, "buildin_") /\ ~StartsWith(fname, "Buildin_") THEN <<>>
             ELSE LET shortened == SubSeq(fname, Len("buildin_") + 1, Len(fname))
                  IN  CASE shortened = "str_concat" -> <<buildin_str_concat(args)>>
                        [] shortened = "identity" -> <<buildin_identity(args)>>
                        [] shortened = "readline" -> <<ReadlineCall(args)>>
                        [] shortened = "print" -> <<PrintCall(args)>>
                        [] OTHER -> <<Err(WrongBuildin(fname))>>

(***************************************************************************)
(* CompilerContext::compile, step by step.                                 *)
(***************************************************************************)
\* the frame of compile(ast, lookup, ssid), entered by compile_symbol
CompileFrame(symbol_id, args) ==
    [k |-> "compile", ssid |-> <<symbol_id, args>>, lookup |-> Lookup(symbol_id),
     ast |-> GetSymbol(symbol_id), id |-> 0, body |-> NoBody, pc |-> "read"]

\* what the driver compiles: (symbol, argument types)
Item(name) == ModuleFind(IdApp, name)[1]
Targets ==
    { <<Item("lit"), <<>>>>, <<Item("rec"), <<>>>>, <<Item("ping"), <<>>>>,
      <<Item("outer"), <<>>>>, <<Item("poly"), <<"String">>>>, <<Item("poly"), <<"Bool">>>>,
      <<Item("shadow"), <<"String">>>>, <<Item("nest"), <<"String">>>>,
      <<Item("letbad"), <<"String">>>>, <<Item("bodybad"), <<"String">>>>,
      <<Item("useext"), <<>>>>, <<Item("usedup"), <<>>>>, <<Item("qual"), <<>>>>,
      <<Item("callb"), <<"String">>>>, <<Item("wrongb"), <<"String">>>>,
      <<Item("qualb"), <<>>>>, <<Item("concat"), <<>>>>, <<Item("argerr"), <<>>>>,
      <<Item("argerr2"), <<>>>>, <<Item("nf"), <<>>>>,
      <<Item("lit"), <<"String">>>>, <<Item("buildin_identity"), <<>>>> }
    \cup { <<Item("let" \o BindingNames[n]), <<>>>> : n \in 1..MaxBindings }

\* main: ctx.compile_symbol(symbol, args)
compile_symbol(t) ==
    /\ mode = "compile"
    /\ Running(t, "idle")
    /\ requests[t] < MaxRequests
    /\ \E target \in Targets :
          stack' = Push(t, CompileFrame(target[1], target[2]))
    /\ ctl' = [ctl EXCEPT ![t] = Fn]
    /\ requests' = [requests EXCEPT ![t] = @ + 1]
    /\ UNCHANGED <<fixed, calllog, functions, fnlock, scopes, reserved, lowered, returned, letlog>>

\* self.functions.read()
compile_read(t) ==
    /\ Running(t, "fn") /\ InFrame(t, "compile") /\ Top(t).pc = "read"
    /\ fnlock.writer = NoThread
    /\ fnlock' = [fnlock EXCEPT !.readers = @ \cup {t}]
    /\ stack' = SetTop(t, [Top(t) EXCEPT !.pc = "check"])
    /\ UNCHANGED <<fixed, calllog, functions, ctl, scopes, requests, reserved, lowered, returned, letlog>>

\* compile_check looking the function up by its definition site alone
compile_check_by_symbol(t) ==
    /\ Running(t, "fn") /\ InFrame(t, "compile") /\ Top(t).pc = "check"
    /\ fnlock' = ReleaseRead(t)
    /\ LET found == {i \in 1..Len(functions) : functions[i].ssid[1] = Top(t).ssid[1]}
       IN  \/ /\ found = {}
              /\ stack' = SetTop(t, [Top(t) EXCEPT !.pc = "write"])
              /\ UNCHANGED <<ctl, returned>>
           \/ \E fnid \in found :
                 /\ functions[fnid].info = "Complete"
                 /\ stack' = Pop(t)
                 /\ ctl' = [ctl EXCEPT ![t] = Ok([id |-> fnid, ty |-> functions[fnid].body.ty])]
                 /\ returned' = Append(returned, [ssid |-> Top(t).ssid, id |-> fnid,
                                                  ty |-> functions[fnid].body.ty])
           \/ \E fnid \in found :
                 /\ functions[fnid].info = "Partial"
                 /\ ctl' = [ctl EXCEPT ![t] = Panic("only found partial function information during compilation")]
                 /\ UNCHANGED <<stack, returned>>
    /\ UNCHANGED <<fixed, calllog, functions, scopes, requests, reserved, lowered, letlog>>

\* compile_check that never finds a finished function
compile_check_miss(t) ==
    /\ Running(t, "fn") /\ InFrame(t, "compile") /\ Top(t).pc = "check"
    /\ fnlock' = ReleaseRead(t)
    /\ LET found == {i \in GetByKey(functions, Top(t).ssid) : functions[i].info = "Partial"}
       IN  \/ /\ found = {}
              /\ stack' = SetTop(t, [Top(t) EXCEPT !.pc = "write"])
              /\ UNCHANGED <<ctl, returned>>
           \/ \E fnid \in found :
                 /\ ctl' = [ctl EXCEPT ![t] = Panic("only found partial function information during compilation")]
                 /\ UNCHANGED <<stack, returned>>
    /\ UNCHANGED <<fixed, calllog, functions, scopes, requests, reserved, lowered, letlog>>

\* the cache check under the read lock
compile_check(t) ==
    /\ Running(t, "fn") /\ InFrame(t, "compile") /\ Top(t).pc = "check"
    /\ fnlock' = ReleaseRead(t)
    /\ LET found == GetByKey(functions, Top(t).ssid)
       IN  \/ /\ found = {}
              /\ stack' = SetTop(t, [Top(t) EXCEPT !.pc = "write"])
              /\ UNCHANGED <<ctl, returned>>
           \/ \E fnid \in found :
                 /\ functions[fnid].info = "Complete"
                 /\ stack' = Pop(t)
                 /\ ctl' = [ctl EXCEPT ![t] = Ok([id |-> fnid, ty |-> functions[fnid].body.ty])]
                 /\ returned' = Append(returned, [ssid |-> Top(t).ssid, id |-> fnid,
                                                  ty |-> functions[fnid].body.ty])
           \/ \E fnid \in found :
                 /\ functions[fnid].info = "Partial"
                 /\ ctl' = [ctl EXCEPT ![t] = Panic("only found partial function information during compilation")]
                 /\ UNCHANGED <<stack, returned>>
    /\ UNCHANGED <<fixed, calllog, functions, scopes, requests, reserved, lowered, letlog>>

\* self.functions.write() of the reservation
compile_write(t) ==
    /\ Running(t, "fn") /\ InFrame(t, "compile") /\ Top(t).pc = "write"
    /\ fnlock.writer = NoThread /\ fnlock.readers = {}
    /\ fnlock' = [fnlock EXCEPT !.writer = t]
    /\ stack' = SetTop(t, [Top(t) EXCEPT !.pc = "reserve"])
    /\ UNCHANGED <<fixed, calllog, functions, ctl, scopes, requests, reserved, lowered, returned, letlog>>

\* the reservation with its write guard kept while the body is lowered
compile_reserve_hold(t) ==
    /\ Running(t, "fn") /\ InFrame(t, "compile") /\ Top(t).pc = "reserve"
    /\ functions' = Reserve(functions, Top(t).ssid)
    /\ stack' = SetTop(t, [Top(t) EXCEPT !.id = Len(functions) + 1, !.pc = "scope"])
    /\ reserved' = Append(reserved, Top(t).ssid)
    /\ UNCHANGED <<fixed, calllog, fnlock, ctl, scopes, requests, lowered, returned, letlog>>

\* .reserve(ssid.clone()), the write guard dropped at the end of the block
compile_reserve(t) ==
    /\ Running(t, "fn") /\ InFrame(t, "compile") /\ Top(t).pc = "reserve"
    /\ functions' = Reserve(functions, Top(t).ssid)
    /\ fnlock' = ReleaseWrite
    /\ stack' = SetTop(t, [Top(t) EXCEPT !.id = Len(functions) + 1, !.pc = "scope"])
    /\ reserved' = Append(reserved, Top(t).ssid)
    /\ UNCHANGED <<fixed, calllog, ctl, scopes, requests, lowered, returned, letlog>>

RECURSIVE PushParams(_, _, _, _)
\* for ((ident, _ty), static_type) in ast.args.iter().zip(args): scope.push(ident)
PushParams(idents, args, i, values) ==
    IF i > Len(idents) \/ i > Len(args) THEN values
    ELSE PushParams(idents, args, i + 1, ScopePush(values, idents[i], NextSlot(values)))

Min(a, b) == IF a <= b THEN a ELSE b
ZipTypes(idents, args) == SubSeq(args, 1, Min(Len(idents), Len(args)))

\* Scope::new(), the parameters pushed, and the body handed to
\* compile_full_expression
compile_scope(t) ==
    /\ Running(t, "fn") /\ InFrame(t, "compile") /\ Top(t).pc = "scope"
    /\ scopes' = [scopes EXCEPT ![t] =
                     Append(@, PushParams(Top(t).ast.args, Top(t).ssid[2], 1, ScopeNew))]
    /\ stack' = SetTop(t, [Top(t) EXCEPT !.pc = "body"])
    /\ ctl' = [ctl EXCEPT ![t] = Expr(Top(t).ast.body, Top(t).lookup)]
    /\ lowered' = Append(lowered, Top(t).ssid)
    /\ UNCHANGED <<fixed, calllog, functions, fnlock, requests, reserved, returned, letlog>>

\* let body = self.compile_full_expression(..)?
compile_body(t) ==
    /\ Running(t, "ret") /\ InFrame(t, "compile") /\ Top(t).pc = "body"
    /\ \/ /\ ~ctl[t].ok
          /\ stack' = Pop(t)
          /\ scopes' = DropScope(t)
          /\ UNCHANGED ctl
       \/ /\ ctl[t].ok
          /\ stack' = SetTop(t, [Top(t) EXCEPT !.body = ctl[t].val, !.pc = "store"])
          /\ ctl' = [ctl EXCEPT ![t] = Fn]
          /\ UNCHANGED scopes
    /\ UNCHANGED <<fixed, calllog, functions, fnlock, requests, reserved, lowered, returned, letlog>>

\* self.functions.write() of the completion
compile_store(t) ==
    /\ Running(t, "fn") /\ InFrame(t, "compile") /\ Top(t).pc = "store"
    /\ fnlock.writer = NoThread /\ fnlock.readers = {}
    /\ fnlock' = [fnlock EXCEPT !.writer = t]
    /\ stack' = SetTop(t, [Top(t) EXCEPT !.pc = "update"])
    /\ UNCHANGED <<fixed, calllog, functions, ctl, scopes, requests, reserved, lowered, returned, letlog>>

\* compile_update storing at the youngest index instead of the reserved one
compile_update_last(t) ==
    /\ Running(t, "fn") /\ InFrame(t, "compile") /\ Top(t).pc = "update"
    /\ functions' = UpdateCompleteFunction(functions, Len(functions),
                        ZipTypes(Top(t).ast.args, Top(t).ssid[2]), Top(t).body)
    /\ fnlock' = ReleaseWrite
    /\ stack' = Pop(t)
    /\ scopes' = DropScope(t)
    /\ ctl' = [ctl EXCEPT ![t] = Ok([id |-> Top(t).id, ty |-> Top(t).body.ty])]
    /\ returned' = Append(returned, [ssid |-> Top(t).ssid, id |-> Top(t).id,
                                     ty |-> Top(t).body.ty])
    /\ UNCHANGED <<fixed, calllog, requests, reserved, lowered, letlog>>

\* .update_complete_function(id, types, body); Ok((id, return_type))
compile_update(t) ==
    /\ Running(t, "fn") /\ InFrame(t, "compile") /\ Top(t).pc = "update"
    /\ functions' = UpdateCompleteFunction(functions, Top(t).id,
                        ZipTypes(Top(t).ast.args, Top(t).ssid[2]), Top(t).body)
    /\ fnlock' = ReleaseWrite
    /\ stack' = Pop(t)
    /\ scopes' = DropScope(t)
    /\ ctl' = [ctl EXCEPT ![t] = Ok([id |-> Top(t).id, ty |-> Top(t).body.ty])]
    /\ returned' = Append(returned, [ssid |-> Top(t).ssid, id |-> Top(t).id,
                                     ty |-> Top(t).body.ty])
    /\ UNCHANGED <<fixed, calllog, requests, reserved, lowered, letlog>>


(***************************************************************************)
(* Lowering of expressions (compile_full_expression, compile_minor_expr,   *)
(* compile_value).                                                         *)
(***************************************************************************)
\* `entry` is instrumentation: the scope as the let found it
LetFrame(expr, lookup, entry) ==
    [k |-> "let", expr |-> expr, lookup |-> lookup, i |-> 1, let_list |-> <<>>,
     entry |-> entry]

\* instrumentation: the let on top of the stack returns, leaving scope `exit`
LetReturns(t, ok, exit) ==
    [letlog EXCEPT ![t] = [n |-> Len(Top(t).expr.definitions), ok |-> ok,
                           entry |-> Top(t).entry, exit |-> exit,
                           depth |-> Cardinality({i \in 1..Len(stack[t]) : stack[t][i].k = "let"})]]
NoLet == [n |-> 0, ok |-> FALSE, entry |-> <<>>, exit |-> <<>>, depth |-> 0]
CallFrame(fc, lookup) ==
    [k |-> "call", fc |-> fc, lookup |-> lookup, i |-> 1, args |-> <<>>]

\* FullExpression::Let: the first binding's value is compiled first
compile_full_expression(t) ==
    /\ mode = "compile"
    /\ Running(t, "expr") /\ ctl[t].e.k = "Let"
    /\ stack' = Push(t, LetFrame(ctl[t].e, ctl[t].lookup, CurScope(t)))
    /\ ctl' = [ctl EXCEPT ![t] = Expr(ctl[t].e.definitions[1].value, ctl[t].lookup)]
    /\ UNCHANGED <<fixed, calllog, functions, fnlock, scopes, requests, reserved, lowered, returned, letlog>>

\* the loop pushing the next binding together with the one just compiled, so
\* that a binding is in scope while its own value is compiled
compile_let_binding_early(t) ==
    /\ mode = "compile"
    /\ Running(t, "ret") /\ InFrame(t, "let")
    /\ Top(t).i <= Len(Top(t).expr.definitions)
    /\ LET f == Top(t)
           n == Len(f.expr.definitions)
           var_index == NextSlot(CurScope(t))
           pushed_one == ScopePush(CurScope(t), f.expr.definitions[f.i].ident, var_index)
       IN  \/ /\ ~ctl[t].ok
              /\ stack' = Pop(t)
              /\ letlog' = LetReturns(t, FALSE, CurScope(t))
              /\ UNCHANGED <<ctl, scopes>>
           \/ /\ ctl[t].ok
              /\ scopes' = SetScope(t, IF f.i < n
                                       THEN ScopePush(pushed_one, f.expr.definitions[f.i + 1].ident,
                                                      NextSlot(pushed_one))
                                       ELSE pushed_one)
              /\ stack' = SetTop(t, [f EXCEPT !.i = @ + 1,
                                              !.let_list = Append(@, <<var_index, ctl[t].val>>)])
              /\ ctl' = [ctl EXCEPT ![t] =
                            Expr(IF f.i < n THEN f.expr.definitions[f.i + 1].value ELSE f.expr.body,
                                 f.lookup)]
              /\ UNCHANGED letlog
    /\ UNCHANGED <<fixed, calllog, functions, fnlock, requests, reserved, lowered, returned>>

\* one turn of the loop over expr.definitions: the value is back, the
\* binding is pushed
compile_let_binding(t) ==
    /\ mode = "compile"
    /\ Running(t, "ret") /\ InFrame(t, "let")
    /\ Top(t).i <= Len(Top(t).expr.definitions)
    /\ LET f == Top(t)
           n == Len(f.expr.definitions)
           var_index == NextSlot(CurScope(t))
       IN  \/ /\ ~ctl[t].ok
              /\ stack' = Pop(t)
              /\ letlog' = LetReturns(t, FALSE, CurScope(t))
              /\ UNCHANGED <<ctl, scopes>>
           \/ /\ ctl[t].ok
              /\ scopes' = SetScope(t, ScopePush(CurScope(t), f.expr.definitions[f.i].ident, var_index))
              /\ stack' = SetTop(t, [f EXCEPT !.i = @ + 1,
                                              !.let_list = Append(@, <<var_index, ctl[t].val>>)])
              /\ ctl' = [ctl EXCEPT ![t] =
                            Expr(IF f.i < n THEN f.expr.definitions[f.i + 1].value ELSE f.expr.body,
                                 f.lookup)]
              /\ UNCHANGED letlog
    /\ UNCHANGED <<fixed, calllog, functions, fnlock, requests, reserved, lowered, returned>>

RECURSIVE WrapBindings(_, _, _, _)
\* for (var_index, var_value) in let_list.into_iter().rev(), from binding i down
WrapBindings(let_list, i, let_tree, body_expression) ==
    IF i = 0 THEN let_tree
    ELSE WrapBindings(let_list, i - 1,
                      NewLocalVar(let_list[i][1], let_list[i][2], body_expression),
                      body_expression)

\* the tree built from the bindings and the compiled body
LetTree(let_list, body_expression) ==
    LET n == Len(let_list)
    IN  WrapBindings(let_list, n - 1,
                     NewLocalVar(let_list[n][1], let_list[n][2], body_expression),
                     body_expression)

\* one pop for the whole let instead of one per definition
PopOnce(values, n) == IF n = 0 THEN values ELSE ScopePop(values)

RECURSIVE PopTimes(_, _)
\* for _ in &expr.definitions { scope.pop(); }
PopTimes(values, n) == IF n = 0 THEN values ELSE PopTimes(ScopePop(values), n - 1)

\* the body is back: the tree is built and the bindings are popped
compile_let_body(t) ==
    /\ mode = "compile"
    /\ Running(t, "ret") /\ InFrame(t, "let")
    /\ Top(t).i > Len(Top(t).expr.definitions)
    /\ stack' = Pop(t)
    /\ \/ /\ ~ctl[t].ok
          /\ letlog' = LetReturns(t, FALSE, CurScope(t))
          /\ UNCHANGED <<ctl, scopes>>
       \/ /\ ctl[t].ok
          /\ scopes' = SetScope(t, PopTimes(CurScope(t), Len(Top(t).expr.definitions)))
          /\ ctl' = [ctl EXCEPT ![t] =
                        Ok(StaticExpression(LetTree(Top(t).let_list, ctl[t].val), ctl[t].val.ty))]
          /\ letlog' = LetReturns(t, TRUE, PopTimes(CurScope(t), Len(Top(t).expr.definitions)))
    /\ UNCHANGED <<fixed, calllog, functions, fnlock, requests, reserved, lowered, returned>>

\* Expression::FunctionCall: the arguments are compiled first
compile_minor_expr(t) ==
    /\ mode = "compile"
    /\ Running(t, "expr") /\ ctl[t].e.k = "FunctionCall"
    /\ stack' = Push(t, CallFrame(ctl[t].e, ctl[t].lookup))
    /\ ctl' = [ctl EXCEPT ![t] =
                  IF ctl[t].e.args = <<>> THEN Dispatch
                  ELSE Expr(ctl[t].e.args[1], ctl[t].lookup)]
    /\ UNCHANGED <<fixed, calllog, functions, fnlock, scopes, requests, reserved, lowered, returned, letlog>>

\* the argument loop going on after an argument failed
compile_call_arg_ignore_error(t) ==
    /\ mode = "compile"
    /\ Running(t, "ret") /\ InFrame(t, "call")
    /\ LET f == Top(t)
       IN  \/ /\ ~ctl[t].ok
              /\ stack' = SetTop(t, [f EXCEPT !.i = @ + 1])
              /\ ctl' = [ctl EXCEPT ![t] =
                            IF f.i < Len(f.fc.args) THEN Expr(f.fc.args[f.i + 1], f.lookup)
                            ELSE Dispatch]
           \/ /\ ctl[t].ok
              /\ stack' = SetTop(t, [f EXCEPT !.i = @ + 1, !.args = Append(@, ctl[t].val)])
              /\ ctl' = [ctl EXCEPT ![t] =
                            IF f.i < Len(f.fc.args) THEN Expr(f.fc.args[f.i + 1], f.lookup)
                            ELSE Dispatch]
    /\ UNCHANGED <<fixed, calllog, functions, fnlock, scopes, requests, reserved, lowered, returned, letlog>>

\* fc.args.iter().map(compile_value).collect::<Result<Vec<_>, _>>()?
compile_call_arg(t) ==
    /\ mode = "compile"
    /\ Running(t, "ret") /\ InFrame(t, "call")
    /\ LET f == Top(t)
       IN  \/ /\ ~ctl[t].ok
              /\ stack' = Pop(t)
              /\ UNCHANGED ctl
           \/ /\ ctl[t].ok
              /\ stack' = SetTop(t, [f EXCEPT !.i = @ + 1, !.args = Append(@, ctl[t].val)])
              /\ ctl' = [ctl EXCEPT ![t] =
                            IF f.i < Len(f.fc.args) THEN Expr(f.fc.args[f.i + 1], f.lookup)
                            ELSE Dispatch]
    /\ UNCHANGED <<fixed, calllog, functions, fnlock, scopes, requests, reserved, lowered, returned, letlog>>

Types(args) == [i \in 1..Len(args) |-> args[i].ty]

\* instrumentation: the call either returns what the dispatcher answered
\* ("buildin") or goes on to resolve_symbol(&path, ..) ("resolve")
CallEvent(t, path, buildin) ==
    [t |-> t, path |-> path, ev |-> IF buildin # <<>> THEN "buildin" ELSE "resolve"]

\* the call once its arguments are compiled: built-in, or resolved callee
compile_call(t) ==
    /\ mode = "compile"
    /\ Running(t, "dispatch") /\ InFrame(t, "call")
    /\ LET f == Top(t)
           buildin == check_buildin_func(f.fc, f.args)
           path == f.fc.function_name
           symbol_candidates == resolve_symbol(path, f.lookup, CurScope(t))
           symbol == symbol_candidates[1]
       IN  \/ /\ buildin # <<>>
              /\ stack' = Pop(t)
              /\ ctl' = [ctl EXCEPT ![t] = buildin[1]]
           \/ /\ buildin = <<>>
              /\ Len(symbol_candidates) > 1
              /\ ctl' = [ctl EXCEPT ![t] = Panic("found multiple candidates")]
              /\ UNCHANGED stack
           \/ /\ buildin = <<>>
              /\ Len(symbol_candidates) = 0
              /\ ctl' = [ctl EXCEPT ![t] = Panic("unwrap on a None value")]
              /\ UNCHANGED stack
           \/ /\ buildin = <<>>
              /\ Len(symbol_candidates) = 1
              /\ symbol.op = "Function"
              /\ stack' = [stack EXCEPT ![t] =
                              SubSeq(@, 1, Len(@) - 1)
                              \o << [k |-> "eval_symbol", args |-> f.args],
                                    CompileFrame(symbol.sym, Types(f.args)) >>]
              /\ ctl' = [ctl EXCEPT ![t] = Fn]
           \/ /\ buildin = <<>>
              /\ Len(symbol_candidates) = 1
              /\ symbol.op # "Function"
              /\ stack' = Pop(t)
              /\ ctl' = [ctl EXCEPT ![t] =
                            IF f.args # <<>>
                            THEN Err(TypeError("value", "fun(...) -> ..."))
                            ELSE Ok(CandidateExpression(symbol))]
    /\ calllog' = Append(calllog, CallEvent(t, Top(t).fc.function_name,
                                            check_buildin_func(Top(t).fc, Top(t).args)))
    /\ UNCHANGED <<fixed, functions, fnlock, scopes, requests, reserved, lowered, returned, letlog>>

\* eval_symbol(function_index, &args): the callee compiled, the call lowered
eval_symbol(t) ==
    /\ Running(t, "ret") /\ InFrame(t, "eval_symbol")
    /\ stack' = Pop(t)
    /\ ctl' = [ctl EXCEPT ![t] =
                  IF ctl[t].ok
                  THEN Ok(StaticExpression(FunctionCall(ctl[t].val.id, Top(t).args), ctl[t].val.ty))
                  ELSE ctl[t]]
    /\ UNCHANGED <<fixed, calllog, functions, fnlock, scopes, requests, reserved, lowered, returned, letlog>>

\* literals, identifiers and one-element tuples
compile_value(t) ==
    /\ mode = "compile"
    /\ Running(t, "expr")
    /\ LET expr == ctl[t].e
           result == resolve_symbol(expr.path, ctl[t].lookup, CurScope(t))
       IN  \/ /\ expr.k = "Literal"
              /\ ctl' = [ctl EXCEPT ![t] =
                            IF expr.lit = "StringLiteral"
                            THEN Ok(StaticExpression(Const(StringValue(expr.s)), "String"))
                            ELSE Ok(StaticExpression(Const(BoolValue(expr.b)), "Bool"))]
           \/ /\ expr.k = "FullIdentifier"
              /\ ctl' = [ctl EXCEPT ![t] =
                            IF Len(expr.path) # 1 THEN Panic("no field access like this")
                            ELSE IF Len(result) = 0 THEN Panic("no results looking up")
                            ELSE IF Len(result) # 1 THEN Panic("found multiple results")
                            ELSE Ok(CandidateExpression(result[1]))]
           \/ /\ expr.k = "Tuple"
              /\ ctl' = [ctl EXCEPT ![t] =
                            IF Len(expr.values) > 1 THEN Panic("tuple values are not ready")
                            ELSE Expr(expr.values[1], ctl[t].lookup)]
    /\ UNCHANGED <<fixed, calllog, functions, fnlock, stack, scopes, requests, reserved, lowered, returned, letlog>>

\* the driver has its answer
driver_return(t) ==
    /\ Running(t, "ret") /\ stack[t] = <<>>
    /\ ctl' = [ctl EXCEPT ![t] = Idle]
    /\ UNCHANGED <<fixed, calllog, functions, fnlock, stack, scopes, requests, reserved, lowered, returned, letlog>>

(***************************************************************************)
(* FileContext: the tree-walking evaluator (src/src/eval.rs).              *)
(***************************************************************************)
\* FileContext.this: the file whose AST the evaluator runs
This == Lookup(SymbolId(IdApp, 1, 1))

FindError(name) == [e |-> "FindError", got |-> "", wanted |-> "", found |-> name]

\* Ok(candidates) or the FindError of find_in_ast
file_resolve_symbol(path, scope) ==
    LET inscope == IF Len(path) = 1 THEN ScopeGet(scope, path[1]) ELSE <<>>
        res == FindInAst(This, path[1])
    IN  IF inscope # <<>> THEN Ok(<<ScopeItem(inscope[1])>>)
        ELSE IF Len(path) = 1
             THEN (IF res = <<>> THEN Err(FindError(path[1]))
                   ELSE Ok(<<FunctionValue(res[1])>>))
             ELSE Ok(<<>>)

\* a candidate as the Value the evaluator hands on
AstFunction(sym) == [t |-> "AstFunction", s |-> "", b |-> FALSE, sym |-> sym]
CandidateValue(c) == IF c.op = "Function" THEN AstFunction(c.sym) ELSE c.item

RECURSIVE FileStrConcat(_, _, _)
FileStrConcat(args, i, s) ==
    IF i > Len(args) THEN Ok(StringValue(s))
    ELSE IF args[i].t = "String" THEN FileStrConcat(args, i + 1, s \o args[i].s)
    ELSE Err(TypeError(type_as_str(args[i]), "String"))

file_buildin_str_concat(args) == FileStrConcat(args, 1, "")

file_check_buildin_func(func, args) ==
    IF Len(func.function_name) # 1 THEN <<>>
    ELSE LET fname == func.function_name[1]
         IN  IF ~StartsWith(fname, "buildin_") /\ ~StartsWith(fname, "Buildin_") THEN <<>>
             ELSE LET shortened == SubSeq(fname, Len("buildin_") + 1, Len(fname))
                  IN  CASE shortened = "str_concat" -> <<file_buildin_str_concat(args)>>
                        [] shortened = "identity" -> <<buildin_identity(args)>>
                        [] shortened = "readline" -> <<ReadlineCall(args)>>
                        [] shortened = "print" -> <<PrintCall(args)>>
                        [] OTHER -> <<Err(WrongBuildin(fname))>>

RECURSIVE BindParams(_, _, _, _)
\* for ((ident, _ty), val) in func.args.iter().zip(args): scope.push(ident, val)
BindParams(idents, args, i, values) ==
    IF i > Len(idents) \/ i > Len(args) THEN values
    ELSE BindParams(idents, args, i + 1, ScopePush(values, idents[i], args[i]))

EvalFrame(sym) == [k |-> "eval_function", func |-> sym]
Depth(t) == Cardinality({i \in 1..Len(stack[t]) : stack[t][i].k = "eval_function"})

\* what the driver evaluates: (function, argument values)
EvalTargets ==
    { <<Item("lit"), <<>>>>, <<Item("rec"), <<>>>>, <<Item("outer"), <<>>>>,
      <<Item("poly"), <<BoolValue(TRUE)>>>>, <<Item("shadow"), <<StringValue("p")>>>>,
      <<Item("nest"), <<StringValue("p")>>>>, <<Item("letbad"), <<StringValue("p")>>>>,
      <<Item("bodybad"), <<StringValue("p")>>>>, <<Item("useext"), <<>>>>,
      <<Item("qual"), <<>>>>,
      <<Item("callb"), <<StringValue("p")>>>>, <<Item("wrongb"), <<StringValue("p")>>>>,
      <<Item("qualb"), <<>>>>, <<Item("concat"), <<>>>>, <<Item("argerr"), <<>>>>,
      <<Item("argerr2"), <<>>>>, <<Item("nf"), <<>>>> }
    \cup { <<Item("let" \o BindingNames[n]), <<>>>> : n \in 1..MaxBindings }

\* the driver's eval_function(func, args): a fresh Scope with the arguments
eval_function(t) ==
    /\ mode = "eval"
    /\ Running(t, "idle")
    /\ requests[t] < MaxRequests
    /\ \E target \in EvalTargets :
          /\ stack' = Push(t, EvalFrame(target[1]))
          /\ scopes' = [scopes EXCEPT ![t] =
                           Append(@, BindParams(GetSymbol(target[1]).args, target[2], 1, ScopeNew))]
          /\ ctl' = [ctl EXCEPT ![t] = Expr(GetSymbol(target[1]).body, This)]
    /\ requests' = [requests EXCEPT ![t] = @ + 1]
    /\ UNCHANGED <<fixed, calllog, functions, fnlock, reserved, lowered, returned, letlog>>

\* the body's result is the function's result; its Scope is dropped
eval_function_return(t) ==
    /\ Running(t, "ret") /\ InFrame(t, "eval_function")
    /\ stack' = Pop(t)
    /\ scopes' = DropScope(t)
    /\ UNCHANGED <<fixed, calllog, functions, fnlock, ctl, requests, reserved, lowered, returned, letlog>>

\* FullExpression::Let
eval_full_expression(t) ==
    /\ mode = "eval"
    /\ Running(t, "expr") /\ ctl[t].e.k = "Let"
    /\ stack' = Push(t, LetFrame(ctl[t].e, ctl[t].lookup, CurScope(t)))
    /\ ctl' = [ctl EXCEPT ![t] = Expr(ctl[t].e.definitions[1].value, ctl[t].lookup)]
    /\ UNCHANGED <<fixed, calllog, functions, fnlock, scopes, requests, reserved, lowered, returned, letlog>>

\* one turn of the loop over expr.definitions
eval_let_binding(t) ==
    /\ mode = "eval"
    /\ Running(t, "ret") /\ InFrame(t, "let")
    /\ Top(t).i <= Len(Top(t).expr.definitions)
    /\ LET f == Top(t)
           n == Len(f.expr.definitions)
       IN  \/ /\ ~ctl[t].ok
              /\ stack' = Pop(t)
              /\ letlog' = LetReturns(t, FALSE, CurScope(t))
              /\ UNCHANGED <<ctl, scopes>>
           \/ /\ ctl[t].ok
              /\ scopes' = SetScope(t, ScopePush(CurScope(t), f.expr.definitions[f.i].ident, ctl[t].val))
              /\ stack' = SetTop(t, [f EXCEPT !.i = @ + 1])
              /\ ctl' = [ctl EXCEPT ![t] =
                            Expr(IF f.i < n THEN f.expr.definitions[f.i + 1].value ELSE f.expr.body,
                                 f.lookup)]
              /\ UNCHANGED letlog
    /\ UNCHANGED <<fixed, calllog, functions, fnlock, requests, reserved, lowered, returned>>

\* the body is back (a value or an error): the bindings are popped
eval_let_body(t) ==
    /\ mode = "eval"
    /\ Running(t, "ret") /\ InFrame(t, "let")
    /\ Top(t).i > Len(Top(t).expr.definitions)
    /\ stack' = Pop(t)
    /\ scopes' = SetScope(t, PopTimes(CurScope(t), Len(Top(t).expr.definitions)))
    /\ letlog' = LetReturns(t, ctl[t].ok, PopTimes(CurScope(t), Len(Top(t).expr.definitions)))
    /\ UNCHANGED <<fixed, calllog, functions, fnlock, ctl, requests, reserved, lowered, returned>>

\* Expression::FunctionCall: the arguments are evaluated first
eval_minor_expr(t) ==
    /\ mode = "eval"
    /\ Running(t, "expr") /\ ctl[t].e.k = "FunctionCall"
    /\ stack' = Push(t, CallFrame(ctl[t].e, ctl[t].lookup))
    /\ ctl' = [ctl EXCEPT ![t] =
                  IF ctl[t].e.args = <<>> THEN Dispatch
                  ELSE Expr(ctl[t].e.args[1], ctl[t].lookup)]
    /\ UNCHANGED <<fixed, calllog, functions, fnlock, scopes, requests, reserved, lowered, returned, letlog>>

\* let v = self.eval_sub_expr(&arg.value, scope)?; args.push(v)
eval_call_arg(t) ==
    /\ mode = "eval"
    /\ Running(t, "ret") /\ InFrame(t, "call")
    /\ LET f == Top(t)
       IN  \/ /\ ~ctl[t].ok
              /\ stack' = Pop(t)
              /\ UNCHANGED ctl
           \/ /\ ctl[t].ok
              /\ stack' = SetTop(t, [f EXCEPT !.i = @ + 1, !.args = Append(@, ctl[t].val)])
              /\ ctl' = [ctl EXCEPT ![t] =
                            IF f.i < Len(f.fc.args) THEN Expr(f.fc.args[f.i + 1], f.lookup)
                            ELSE Dispatch]
    /\ UNCHANGED <<fixed, calllog, functions, fnlock, scopes, requests, reserved, lowered, returned, letlog>>

\* the call once its arguments are evaluated
eval_call(t) ==
    /\ mode = "eval"
    /\ Running(t, "dispatch") /\ InFrame(t, "call")
    /\ LET f == Top(t)
           buildin == file_check_buildin_func(f.fc, f.args)
           resolved == file_resolve_symbol(f.fc.function_name, CurScope(t))
           symbol == resolved.val[1]
       IN  \/ /\ buildin # <<>>
              /\ stack' = Pop(t)
              /\ ctl' = [ctl EXCEPT ![t] = buildin[1]]
              /\ UNCHANGED scopes
           \/ /\ buildin = <<>>
              /\ ~resolved.ok
              /\ stack' = Pop(t)
              /\ ctl' = [ctl EXCEPT ![t] = resolved]
              /\ UNCHANGED scopes
           \/ /\ buildin = <<>>
              /\ resolved.ok /\ Len(resolved.val) = 0
              /\ ctl' = [ctl EXCEPT ![t] = Panic("unwrap on a None value")]
              /\ UNCHANGED <<stack, scopes>>
           \/ /\ buildin = <<>>
              /\ resolved.ok /\ Len(resolved.val) = 1
              /\ symbol.op = "Function"
              /\ Depth(t) < MaxDepth
              /\ stack' = SetTop(t, EvalFrame(symbol.sym))
              /\ scopes' = [scopes EXCEPT ![t] =
                               Append(@, BindParams(GetSymbol(symbol.sym).args, f.args, 1, ScopeNew))]
              /\ ctl' = [ctl EXCEPT ![t] = Expr(GetSymbol(symbol.sym).body, This)]
           \/ /\ buildin = <<>>
              /\ resolved.ok /\ Len(resolved.val) = 1
              /\ symbol.op # "Function"
              /\ stack' = Pop(t)
              /\ ctl' = [ctl EXCEPT ![t] =
                            IF f.args # <<>>
                            THEN Err(TypeError("value", "fun(...) -> ..."))
                            ELSE Ok(CandidateValue(symbol))]
              /\ UNCHANGED scopes
    /\ calllog' = Append(calllog, CallEvent(t, Top(t).fc.function_name,
                                            file_check_buildin_func(Top(t).fc, Top(t).args)))
    /\ UNCHANGED <<fixed, functions, fnlock, requests, reserved, lowered, returned, letlog>>

\* literals, identifiers and one-element tuples
eval_sub_expr(t) ==
    /\ mode = "eval"
    /\ Running(t, "expr")
    /\ LET expr == ctl[t].e
           result == file_resolve_symbol(expr.path, CurScope(t))
       IN  \/ /\ expr.k = "Literal"
              /\ ctl' = [ctl EXCEPT ![t] =
                            IF expr.lit = "StringLiteral" THEN Ok(StringValue(expr.s))
                            ELSE Ok(BoolValue(expr.b))]
           \/ /\ expr.k = "FullIdentifier"
              /\ ctl' = [ctl EXCEPT ![t] =
                            IF Len(expr.path) # 1 THEN Panic("no field access like this")
                            ELSE IF ~result.ok THEN result
                            ELSE IF Len(result.val) # 1 THEN Panic("found multiple results")
                            ELSE Ok(CandidateValue(result.val[1]))]
           \/ /\ expr.k = "Tuple"
              /\ ctl' = [ctl EXCEPT ![t] =
                            IF Len(expr.values) > 1 THEN Panic("tuple values are not ready")
                            ELSE Expr(expr.values[1], ctl[t].lookup)]
    /\ UNCHANGED <<fixed, calllog, functions, fnlock, stack, scopes, requests, reserved, lowered, returned, letlog>>

(***************************************************************************)
(* The Scope on its own: any sequence of push, pop and get.                *)
(***************************************************************************)
\* pushes explored on the Scope driven directly
MaxPushes == 4

ScopeNames == {"x", "y"}
NoGot == [name |-> "", res |-> <<>>]

\* scope.push(name, value); the value of the k-th push is k, so that the
\* bindings can be told apart
scope_push(name) ==
    /\ Len(pushed) < MaxPushes
    /\ sc' = ScopePush(sc, name, Len(pushed) + 1)
    /\ pushed' = Append(pushed, [name |-> name, item |-> Len(pushed) + 1])
    /\ lastget' = NoGot
    /\ UNCHANGED <<mode, live, popped, program, io>>

\* scope.pop(): the value it returns is noted
scope_pop ==
    /\ sc # <<>>
    /\ sc' = ScopePop(sc)
    /\ popped' = popped \cup {sc[Len(sc)].item}
    /\ lastget' = NoGot
    /\ UNCHANGED <<mode, live, pushed, program, io>>

\* scope.get(name)
scope_get(name) ==
    /\ lastget' = [name |-> name, res |-> ScopeGet(sc, name)]
    /\ UNCHANGED <<mode, live, sc, pushed, popped, program, io>>

NextScope ==
    \/ \E name \in ScopeNames : scope_push(name)
    \/ scope_pop
    \/ \E name \in ScopeNames : scope_get(name)

(***************************************************************************)
(* print and readline of the compiler: one Mutex around the whole console. *)
(***************************************************************************)
\* what print and readline leave alone
notio == <<mode, live, sc, pushed, popped, lastget, functions, fnlock, stack, scopes,
           requests, reserved, lowered, returned, letlog, calllog, iocalls, bres, imp, mir>>

\* the text write!(out, "{arg}") writes for an argument of the compiler
Text(arg) == IF arg.instr.op = "Const" THEN to_string(arg.instr.v) ELSE arg.ty

\* let mut out = self.interpreter_ctx.lock().expect("lock interpreter io")
buildin_print_lock(t) ==
    /\ mode = "compile"
    /\ Running(t, "buildin_print") /\ ctl[t].pc = "enter"
    /\ \/ /\ console.io = NoThread
          /\ console' = [console EXCEPT !.io = t]
          /\ ctl' = [ctl EXCEPT ![t].pc = "write"]
       \/ /\ console.io = Poisoned
          /\ ctl' = [ctl EXCEPT ![t] = Panic("lock interpreter io")]
          /\ UNCHANGED console
    /\ UNCHANGED <<notio, stdout, stdin, readlog>>

\* for arg in args { write!(*out, "{arg}") }
buildin_print_write(t) ==
    /\ mode = "compile"
    /\ Running(t, "buildin_print") /\ ctl[t].pc = "write"
    /\ ctl[t].i <= Len(ctl[t].args)
    /\ stdout' = Append(stdout, Chunk(t, Text(ctl[t].args[ctl[t].i])))
    /\ ctl' = [ctl EXCEPT ![t].i = @ + 1]
    /\ UNCHANGED <<notio, stdin, console, readlog>>

\* out.flush(); Ok(StaticExpression::Void): the guard is dropped
buildin_print_flush(t) ==
    /\ mode = "compile"
    /\ Running(t, "buildin_print") /\ ctl[t].pc = "write"
    /\ ctl[t].i > Len(ctl[t].args)
    /\ console' = [console EXCEPT !.io = NoThread]
    /\ ctl' = [ctl EXCEPT ![t] = Ok(StaticExpression(Const(VoidValue), "Void"))]
    /\ UNCHANGED <<notio, stdout, stdin, readlog>>

\* let mut iio = self.interpreter_ctx.lock().expect("lock interpreter io")
buildin_readline_lock(t) ==
    /\ mode = "compile"
    /\ Running(t, "buildin_readline") /\ ctl[t].pc = "enter"
    /\ \/ /\ console.io = NoThread
          /\ console' = [console EXCEPT !.io = t]
          /\ ctl' = [ctl EXCEPT ![t].pc = "prompt"]
       \/ /\ console.io = Poisoned
          /\ ctl' = [ctl EXCEPT ![t] = Panic("lock interpreter io")]
          /\ UNCHANGED console
    /\ UNCHANGED <<notio, stdout, stdin, readlog>>

\* the prompt: none, or one string, written and flushed; a panic under the
\* lock poisons it
buildin_readline_prompt(t) ==
    /\ mode = "compile"
    /\ Running(t, "buildin_readline") /\ ctl[t].pc = "prompt"
    /\ LET args == ctl[t].args
       IN  \/ /\ args = <<>>
              /\ ctl' = [ctl EXCEPT ![t].pc = "read", ![t].start = stdin]
              /\ UNCHANGED <<stdout, console>>
           \/ /\ Len(args) > 1
              /\ ctl' = [ctl EXCEPT ![t] =
                            Panic("Expected 1 argument of type string to buildin_readline")]
              /\ console' = [console EXCEPT !.io = Poisoned]
              /\ UNCHANGED stdout
           \/ /\ Len(args) = 1 /\ ~IsString(args[1])
              /\ ctl' = [ctl EXCEPT ![t] =
                            Panic("Expected argument to buildin_readline to be of type string")]
              /\ console' = [console EXCEPT !.io = Poisoned]
              /\ UNCHANGED stdout
           \/ /\ Len(args) = 1 /\ IsString(args[1])
              /\ stdout' = Append(stdout, Chunk(t, args[1].instr.v.s))
              /\ ctl' = [ctl EXCEPT ![t].pc = "read", ![t].prompted = TRUE, ![t].start = stdin]
              /\ UNCHANGED console
    /\ UNCHANGED <<notio, stdin, readlog>>

\* one round of the loop: read_exact of one byte; the newline ends it
buildin_readline_read(t) ==
    /\ mode = "compile"
    /\ Running(t, "buildin_readline") /\ ctl[t].pc = "read"
    /\ \/ /\ stdin = <<>>
          /\ ctl' = [ctl EXCEPT ![t] = Panic("read from input")]
          /\ console' = [console EXCEPT !.io = Poisoned]
          /\ UNCHANGED <<stdin, readlog>>
       \/ /\ stdin # <<>> /\ Head(stdin) # NewLine
          /\ stdin' = Tail(stdin)
          /\ ctl' = [ctl EXCEPT ![t].s = Append(@, Head(stdin))]
          /\ UNCHANGED <<console, readlog>>
       \/ /\ stdin # <<>> /\ Head(stdin) = NewLine
          /\ ~ValidUtf8(ctl[t].s)
          /\ stdin' = Tail(stdin)
          /\ ctl' = [ctl EXCEPT ![t] = Panic("parse stdin as a string")]
          /\ console' = [console EXCEPT !.io = Poisoned]
          /\ UNCHANGED readlog
       \/ /\ stdin # <<>> /\ Head(stdin) = NewLine
          /\ ValidUtf8(ctl[t].s)
          /\ stdin' = Tail(stdin)
          /\ ctl' = [ctl EXCEPT ![t] =
                        Ok(StaticExpression(Const(StringValue(FromUtf8(ctl[t].s))), "String"))]
          /\ console' = [console EXCEPT !.io = NoThread]
          /\ readlog' = Append(readlog, [t |-> t, start |-> ctl[t].start,
                                         res |-> FromUtf8(ctl[t].s), rest |-> Tail(stdin)])
    /\ UNCHANGED <<notio, stdout>>

(***************************************************************************)
(* print and readline of the evaluator: a Mutex for stdout, one for stdin. *)
(***************************************************************************)
\* for arg in args { let mut out = self.interpreter_ctx.stdout.lock() ...
file_buildin_print_lock(t) ==
    /\ mode = "eval"
    /\ Running(t, "buildin_print") /\ ctl[t].pc = "enter"
    /\ ctl[t].i <= Len(ctl[t].args)
    /\ console.out = NoThread
    /\ console' = [console EXCEPT !.out = t]
    /\ ctl' = [ctl EXCEPT ![t].pc = "write"]
    /\ UNCHANGED <<notio, stdout, stdin, readlog>>

\* ... write!(out, "{arg}"); out.flush(); } the guard is dropped every round
file_buildin_print_write(t) ==
    /\ mode = "eval"
    /\ Running(t, "buildin_print") /\ ctl[t].pc = "write"
    /\ stdout' = Append(stdout, Chunk(t, to_string(ctl[t].args[ctl[t].i])))
    /\ console' = [console EXCEPT !.out = NoThread]
    /\ ctl' = [ctl EXCEPT ![t].pc = "enter", ![t].i = @ + 1]
    /\ UNCHANGED <<notio, stdin, readlog>>

\* Ok(Value::Void)
file_buildin_print_return(t) ==
    /\ mode = "eval"
    /\ Running(t, "buildin_print") /\ ctl[t].pc = "enter"
    /\ ctl[t].i > Len(ctl[t].args)
    /\ ctl' = [ctl EXCEPT ![t] = Ok(VoidValue)]
    /\ UNCHANGED <<notio, stdout, stdin, console, readlog>>

\* the prompt: checked, then written and flushed under the stdout lock,
\* which is dropped at the end of the block
file_buildin_readline_prompt(t) ==
    /\ mode = "eval"
    /\ Running(t, "buildin_readline") /\ ctl[t].pc = "enter"
    /\ LET args == ctl[t].args
       IN  \/ /\ args = <<>>
              /\ ctl' = [ctl EXCEPT ![t].pc = "lock"]
              /\ UNCHANGED stdout
           \/ /\ Len(args) > 1
              /\ ctl' = [ctl EXCEPT ![t] =
                            Panic("Expected 1 argument of type string to buildin_readline")]
              /\ UNCHANGED stdout
           \/ /\ Len(args) = 1 /\ args[1].t # "String"
              /\ ctl' = [ctl EXCEPT ![t] =
                            Panic("Expected argument to buildin_readline to be of type string")]
              /\ UNCHANGED stdout
           \/ /\ Len(args) = 1 /\ args[1].t = "String"
              /\ console.out = NoThread
              /\ stdout' = Append(stdout, Chunk(t, args[1].s))
              /\ ctl' = [ctl EXCEPT ![t].pc = "lock", ![t].prompted = TRUE]
    /\ UNCHANGED <<notio, stdin, console, readlog>>

\* let mut r = self.interpreter_ctx.stdin.lock().expect("lock standart input")
file_buildin_readline_lock(t) ==
    /\ mode = "eval"
    /\ Running(t, "buildin_readline") /\ ctl[t].pc = "lock"
    /\ \/ /\ console.inp = NoThread
          /\ console' = [console EXCEPT !.inp = t]
          /\ ctl' = [ctl EXCEPT ![t].pc = "read", ![t].start = stdin]
       \/ /\ console.inp = Poisoned
          /\ ctl' = [ctl EXCEPT ![t] = Panic("lock standart input")]
          /\ UNCHANGED console
    /\ UNCHANGED <<notio, stdout, stdin, readlog>>

\* the loop leaving the newline in the input
file_buildin_readline_peek(t) ==
    /\ mode = "eval"
    /\ Running(t, "buildin_readline") /\ ctl[t].pc = "read"
    /\ \/ /\ stdin = <<>>
          /\ ctl' = [ctl EXCEPT ![t] = Panic("read from input")]
          /\ console' = [console EXCEPT !.inp = Poisoned]
          /\ UNCHANGED <<stdin, readlog>>
       \/ /\ stdin # <<>> /\ Head(stdin) # NewLine
          /\ stdin' = Tail(stdin)
          /\ ctl' = [ctl EXCEPT ![t].s = Append(@, Head(stdin))]
          /\ UNCHANGED <<console, readlog>>
       \/ /\ stdin # <<>> /\ Head(stdin) = NewLine
          /\ ~ValidUtf8(ctl[t].s)
          /\ stdin' = Tail(stdin)
          /\ ctl' = [ctl EXCEPT ![t] = Panic("parse stdin as a string")]
          /\ console' = [console EXCEPT !.inp = Poisoned]
          /\ UNCHANGED readlog
       \/ /\ stdin # <<>> /\ Head(stdin) = NewLine
          /\ ValidUtf8(ctl[t].s)
          /\ stdin' = stdin
          /\ ctl' = [ctl EXCEPT ![t] = Ok(StringValue(FromUtf8(ctl[t].s)))]
          /\ console' = [console EXCEPT !.inp = NoThread]
          /\ readlog' = Append(readlog, [t |-> t, start |-> ctl[t].start,
                                         res |-> FromUtf8(ctl[t].s), rest |-> stdin])
    /\ UNCHANGED <<notio, stdout>>

\* one round of the loop: read_exact of one byte; the newline ends it
file_buildin_readline_read(t) ==
    /\ mode = "eval"
    /\ Running(t, "buildin_readline") /\ ctl[t].pc = "read"
    /\ \/ /\ stdin = <<>>
          /\ ctl' = [ctl EXCEPT ![t] = Panic("read from input")]
          /\ console' = [console EXCEPT !.inp = Poisoned]
          /\ UNCHANGED <<stdin, readlog>>
       \/ /\ stdin # <<>> /\ Head(stdin) # NewLine
          /\ stdin' = Tail(stdin)
          /\ ctl' = [ctl EXCEPT ![t].s = Append(@, Head(stdin))]
          /\ UNCHANGED <<console, readlog>>
       \/ /\ stdin # <<>> /\ Head(stdin) = NewLine
          /\ ~ValidUtf8(ctl[t].s)
          /\ stdin' = Tail(stdin)
          /\ ctl' = [ctl EXCEPT ![t] = Panic("parse stdin as a string")]
          /\ console' = [console EXCEPT !.inp = Poisoned]
          /\ UNCHANGED readlog
       \/ /\ stdin # <<>> /\ Head(stdin) = NewLine
          /\ ValidUtf8(ctl[t].s)
          /\ stdin' = Tail(stdin)
          /\ ctl' = [ctl EXCEPT ![t] = Ok(StringValue(FromUtf8(ctl[t].s)))]
          /\ console' = [console EXCEPT !.inp = NoThread]
          /\ readlog' = Append(readlog, [t |-> t, start |-> ctl[t].start,
                                         res |-> FromUtf8(ctl[t].s), rest |-> Tail(stdin)])
    /\ UNCHANGED <<notio, stdout>>

(***************************************************************************)
(* Built-in calls issued by several threads at once.                       *)
(***************************************************************************)
\* the argument values of the calls
P == StringValue("p")
Q == StringValue("q")
B == BoolValue(TRUE)

\* an evaluated argument as the compiler holds it
AsStatic(v) == StaticExpression(Const(v), v.t)

\* the print and readline calls the threads make
IoCalls ==
    { [name |-> "buildin_print", args |-> a] : a \in {<<>>, <<P>>, <<P, Q>>} }
    \cup { [name |-> "buildin_readline", args |-> a] : a \in {<<>>, <<P>>, <<P, Q>>, <<B>>} }

\* a call of a built-in whose arguments are evaluated: what the dispatcher
\* starts for it; every thread makes one
buildin_call(t) ==
    /\ Running(t, "idle")
    /\ iocalls[t] = 0
    /\ \E c \in IoCalls :
          ctl' = [ctl EXCEPT ![t] =
                     IF mode = "compile"
                     THEN check_buildin_func(Call(<<c.name>>, <<>>),
                                             [i \in 1..Len(c.args) |-> AsStatic(c.args[i])])[1]
                     ELSE file_check_buildin_func(Call(<<c.name>>, <<>>), c.args)[1]]
    /\ iocalls' = [iocalls EXCEPT ![t] = @ + 1]
    /\ UNCHANGED <<mode, live, sc, pushed, popped, lastget, functions, fnlock, stack, scopes,
                   requests, reserved, lowered, returned, letlog, calllog, bres, imp, mir,
                   stdout, stdin, console, readlog>>

(***************************************************************************)
(* The Built-in Dispatcher asked directly, one call at a time.             *)
(***************************************************************************)
MaxArgs == 2

\* evaluated arguments: two strings, a boolean, the void value
ArgValues == {P, Q, B, VoidValue}
ArgLists == UNION {[1..n -> ArgValues] : n \in 0..MaxArgs}

\* call names: both prefixes, the four built-ins, unknown names behind the
\* prefix, no prefix, the other case, more than one segment
BuildinPaths ==
    { <<"buildin_str_concat">>, <<"Buildin_str_concat">>, <<"buildin_identity">>,
      <<"buildin_print">>, <<"buildin_readline">>, <<"buildin_nope">>, <<"buildin_">>,
      <<"Buildin_Print">>, <<"str_concat">>, <<"BUILDIN_print">>,
      <<"buildin_identity", "sub">> }

NoRequest == [path |-> <<>>, args |-> <<>>, res |-> <<>>]

\* self.check_buildin_func(fc, &args) for a call name and evaluated arguments
buildin_request ==
    /\ bres = NoRequest
    /\ \E path \in BuildinPaths, args \in ArgLists :
          bres' = [path |-> path, args |-> args,
                   res |-> IF mode = "compile"
                           THEN check_buildin_func(Call(path, <<>>),
                                    [i \in 1..Len(args) |-> AsStatic(args[i])])
                           ELSE file_check_buildin_func(Call(path, <<>>), args)]
    /\ UNCHANGED <<mode, live, sc, pushed, popped, lastget, program,
                   stdout, stdin, console, iocalls, readlog, imp, mir>>

(***************************************************************************)
(* resolve_imports (src/src/project/modules.rs).                           *)
(***************************************************************************)
MaxImports == 2

\* depmap: library name -> absolute path; basepath: the active project
DepMap == ("std" :> <<"std", "v1">>)
BasePath == <<"app">>

\* import.items
SelectionThis == [sel |-> "This", names |-> <<>>]
SelectionAll == [sel |-> "All", names |-> <<>>]
SelectionItems(names) == [sel |-> "Items", names |-> names]

\* an import declaration of the AST
Import(is_lib, path, items) == [is_lib |-> is_lib, path |-> path, items |-> items]

ImportDecls ==
    { Import(TRUE, <<"std", "a", "x">>, SelectionThis),
      Import(TRUE, <<"std", "b", "x">>, SelectionThis),
      Import(FALSE, <<"m", "x">>, SelectionThis),
      Import(FALSE, <<"m">>, SelectionItems(<<"x", "y">>)),
      Import(TRUE, <<"std", "a">>, SelectionItems(<<"y">>)),
      Import(TRUE, <<"std">>, SelectionThis),
      Import(TRUE, <<"nolib", "x">>, SelectionThis),
      Import(FALSE, <<"m">>, SelectionItems(<<"x", "x">>)),
      Import(FALSE, <<"m">>, SelectionAll) }

\* let mut imports = HashMap::new(), in front of the first declaration
ImportsOf(decls) ==
    [decls |-> decls, i |-> 1, imports |-> NoImports, st |-> "run", libname |-> ""]

\* the absolute path of the declaration
AbsolutePath(import) ==
    IF import.is_lib THEN DepMap[import.path[1]] \o Tail(import.path)
    ELSE BasePath \o import.path

\* imports.insert(symbol, vec![path]): the entry replaced
PushPathInsert(imports, symbol, path) ==
    [x \in DOMAIN imports \cup {symbol} |-> IF x = symbol THEN <<path>> ELSE imports[x]]

\* imports.entry(symbol).or_insert_with(Vec::new).push(path)
PushPath(imports, symbol, path) ==
    IF symbol \in DOMAIN imports THEN [imports EXCEPT ![symbol] = Append(@, path)]
    ELSE imports @@ (symbol :> <<path>>)

RECURSIVE PushItems(_, _, _, _)
\* for symbol in s.iter() { ... .push(path.clone()) }
PushItems(imports, names, k, path) ==
    IF k > Len(names) THEN imports
    ELSE PushItems(PushPath(imports, names[k], path), names, k + 1, path)

\* one round of the loop over ast.imports
resolve_import ==
    /\ imp.st = "run" /\ imp.i <= Len(imp.decls)
    /\ LET import == imp.decls[imp.i]
           path == AbsolutePath(import)
           known == ~import.is_lib \/ import.path[1] \in DOMAIN DepMap
       IN  \/ /\ ~known
              /\ imp' = [imp EXCEPT !.st = "LibNotInDeps", !.libname = import.path[1]]
           \/ /\ known /\ import.items.sel = "All"
              /\ imp' = [imp EXCEPT !.st = "panic"]
           \/ /\ known /\ import.items.sel = "This"
              /\ imp' = [imp EXCEPT !.i = @ + 1,
                                    !.imports = PushPath(@, path[Len(path)],
                                                         SubSeq(path, 1, Len(path) - 1))]
           \/ /\ known /\ import.items.sel = "Items"
              /\ imp' = [imp EXCEPT !.i = @ + 1,
                                    !.imports = PushItems(@, import.items.names, 1, path)]
    /\ UNCHANGED <<mode, live, sc, pushed, popped, lastget, program,
                   stdout, stdin, console, iocalls, readlog, bres, mir>>

\* Ok(imports)
resolve_imports_return ==
    /\ imp.st = "run" /\ imp.i > Len(imp.decls)
    /\ imp' = [imp EXCEPT !.st = "Ok"]
    /\ UNCHANGED <<mode, live, sc, pushed, popped, lastget, program,
                   stdout, stdin, console, iocalls, readlog, bres, mir>>

(***************************************************************************)
(* The Instruction Evaluator (src/src/mir/eval/mod.rs).                    *)
(***************************************************************************)
Custom(code, args) == [op |-> "Custom", code |-> code, args |-> args]

\* the bytes of a line as text, the newline with them
LineText == Letters @@ (NewLine :> "\n")

RECURSIVE LineString(_)
LineString(bytes) ==
    IF bytes = <<>> THEN "" ELSE LineText[Head(bytes)] \o LineString(Tail(bytes))

\* how many bytes read_line takes: through the first newline, or all
LineLength(inp) ==
    IF \E k \in 1..Len(inp) : inp[k] = NewLine
    THEN CHOOSE k \in 1..Len(inp) : inp[k] = NewLine /\ \A j \in 1..(k - 1) : inp[j] # NewLine
    ELSE Len(inp)

\* the outcome of evaluate: the Value, the console after it, the panic if any
Outcome(val, con, panic) == [val |-> val, con |-> con, panic |-> panic]

RECURSIVE evaluate(_, _)
RECURSIVE string_concat(_, _, _, _)
\* for arg in args { buffer.push_str(&self.evaluate(&arg.instr).to_string()) }
string_concat(args, i, buffer, con) ==
    IF i > Len(args) THEN Outcome(StringValue(buffer), con, "")
    ELSE LET value == evaluate(args[i].instr, con)
         IN  IF value.panic # "" THEN value
             ELSE string_concat(args, i + 1, buffer \o to_string(value.val), value.con)

\* EvaluationContext::evaluate; con is the console: out written, inp unread
evaluate(op, con) ==
    IF op.op = "Const" THEN Outcome(op.v, con, "")
    ELSE IF op.op # "Custom" THEN Outcome(VoidValue, con, "not yet implemented")
    ELSE IF op.code = "StrConcat" THEN string_concat(op.args, 1, "", con)
    ELSE IF op.code = "Identity"
         THEN (IF Len(op.args) # 1
               THEN Outcome(VoidValue, con, "expect only one argument to be passed")
               ELSE evaluate(op.args[1].instr, con))
    ELSE IF op.code = "Print"
         THEN LET text == string_concat(op.args, 1, "", con)
              IN  IF text.panic # "" THEN text
                  ELSE Outcome(VoidValue, [text.con EXCEPT !.out = Append(@, text.val.s)], "")
    ELSE LET text == IF op.args # <<>> THEN string_concat(op.args, 1, "", con)
                     ELSE Outcome(StringValue(""), con, "")
             prompted == IF op.args # <<>> /\ text.panic = ""
                         THEN [text.con EXCEPT !.out = Append(@, text.val.s)]
                         ELSE text.con
             n == LineLength(prompted.inp)
             line == SubSeq(prompted.inp, 1, n)
         IN  IF text.panic # "" THEN text
             ELSE IF \E k \in 1..n : line[k] \notin DOMAIN LineText
                  THEN Outcome(VoidValue, prompted, "read line")
                  ELSE Outcome(StringValue(LineString(line)),
                               [prompted EXCEPT !.inp = SubSeq(@, n + 1, Len(@))], "")

\* argument expressions: constants, and prints that show when they ran
MirArgs ==
    { StaticExpression(Const(P), "String"), StaticExpression(Const(B), "Bool"),
      StaticExpression(Custom("Print", <<StaticExpression(Const(P), "String")>>), "Void"),
      StaticExpression(Custom("Print", <<StaticExpression(Const(Q), "String")>>), "Void") }

MirCodes == {"StrConcat", "Identity", "Print", "Readline"}

MirInstructions ==
    { Custom(code, args) : code \in MirCodes,
                           args \in UNION {[1..n -> MirArgs] : n \in 0..MaxArgs} }
    \cup { Const(P), GetLocalVar(0) }

NoMir == [done |-> FALSE]

\* evaluate(op) with the input holding `input`
mir_evaluate ==
    /\ ~mir.done
    /\ \E op \in MirInstructions, input \in Inputs :
          mir' = [done |-> TRUE, op |-> op, input |-> input,
                  res |-> evaluate(op, [out |-> <<>>, inp |-> input])]
    /\ UNCHANGED <<mode, live, sc, pushed, popped, lastget, program,
                   stdout, stdin, console, iocalls, readlog, bres, imp>>

(***************************************************************************)
(* Specification.                                                          *)
(***************************************************************************)
\* nothing called, written, read, imported or evaluated yet
InitRest ==
    /\ calllog = <<>>
    /\ stdout = <<>>
    /\ console = FreeConsole
    /\ iocalls = [t \in Threads |-> 0]
    /\ readlog = <<>>
    /\ bres = NoRequest
    /\ imp = ImportsOf(<<>>)
    /\ mir = NoMir

Init ==
    /\ mode \in {"compile", "eval"}
    /\ live = {"t1"}
    /\ functions = <<>>
    /\ fnlock = [readers |-> {}, writer |-> NoThread]
    /\ stack = [t \in Threads |-> <<>>]
    /\ ctl = [t \in Threads |-> Idle]
    /\ scopes = [t \in Threads |-> <<>>]
    /\ requests = [t \in Threads |-> 0]
    /\ reserved = <<>>
    /\ lowered = <<>>
    /\ returned = <<>>
    /\ letlog = [t \in Threads |-> NoLet]
    /\ sc = ScopeNew
    /\ pushed = <<>>
    /\ popped = {}
    /\ lastget = NoGot
    /\ InitRest
    /\ stdin = <<>>

Next ==
    \E t \in Threads :
        \/ compile_symbol(t)
        \/ compile_read(t)
        \/ compile_check(t)
        \/ compile_write(t)
        \/ compile_reserve(t)
        \/ compile_scope(t)
        \/ compile_body(t)
        \/ compile_store(t)
        \/ compile_update(t)
        \/ compile_full_expression(t)
        \/ compile_let_binding(t)
        \/ compile_let_body(t)
        \/ compile_minor_expr(t)
        \/ compile_call_arg(t)
        \/ compile_call(t)
        \/ eval_symbol(t)
        \/ compile_value(t)
        \/ eval_function(t)
        \/ eval_function_return(t)
        \/ eval_full_expression(t)
        \/ eval_let_binding(t)
        \/ eval_let_body(t)
        \/ eval_minor_expr(t)
        \/ eval_call_arg(t)
        \/ eval_call(t)
        \/ eval_sub_expr(t)
        \/ driver_return(t)

Spec == Init /\ [][Next]_vars

\* two threads compile against the one Function Store
InitConc ==
    /\ mode = "compile"
    /\ live = Threads
    /\ functions = <<>>
    /\ fnlock = [readers |-> {}, writer |-> NoThread]
    /\ stack = [t \in Threads |-> <<>>]
    /\ ctl = [t \in Threads |-> Idle]
    /\ scopes = [t \in Threads |-> <<>>]
    /\ requests = [t \in Threads |-> 0]
    /\ reserved = <<>>
    /\ lowered = <<>>
    /\ returned = <<>>
    /\ letlog = [t \in Threads |-> NoLet]
    /\ sc = ScopeNew
    /\ pushed = <<>>
    /\ popped = {}
    /\ lastget = NoGot
    /\ InitRest
    /\ stdin = <<>>

\* what the concurrent requests compile
ConcTargets ==
    { <<Item("lit"), <<>>>>, <<Item("outer"), <<>>>>, <<Item("let" \o BindingNames[1]), <<>>>> }

\* several targets compiled in parallel: every thread issues one request
compile_symbol_parallel(t) ==
    /\ mode = "compile"
    /\ Running(t, "idle")
    /\ requests[t] = 0
    /\ \E target \in ConcTargets :
          stack' = Push(t, CompileFrame(target[1], target[2]))
    /\ ctl' = [ctl EXCEPT ![t] = Fn]
    /\ requests' = [requests EXCEPT ![t] = @ + 1]
    /\ UNCHANGED <<fixed, calllog, functions, fnlock, scopes, reserved, lowered, returned, letlog>>

NextConc ==
    \E t \in Threads :
        \/ compile_symbol_parallel(t)
        \/ compile_read(t)
        \/ compile_check(t)
        \/ compile_write(t)
        \/ compile_reserve(t)
        \/ compile_scope(t)
        \/ compile_body(t)
        \/ compile_store(t)
        \/ compile_update(t)
        \/ compile_full_expression(t)
        \/ compile_let_binding(t)
        \/ compile_let_body(t)
        \/ compile_minor_expr(t)
        \/ compile_call_arg(t)
        \/ compile_call(t)
        \/ eval_symbol(t)
        \/ compile_value(t)
        \/ driver_return(t)

SpecConc == InitConc /\ [][NextConc]_vars

\* the Scope alone
InitScope == Init /\ mode = "eval"

SpecScope == InitScope /\ [][NextScope]_vars

\* two threads call print and readline on one console
InitConsole ==
    /\ mode \in {"compile", "eval"}
    /\ live = Threads
    /\ functions = <<>>
    /\ fnlock = [readers |-> {}, writer |-> NoThread]
    /\ stack = [t \in Threads |-> <<>>]
    /\ ctl = [t \in Threads |-> Idle]
    /\ scopes = [t \in Threads |-> <<>>]
    /\ requests = [t \in Threads |-> 0]
    /\ reserved = <<>>
    /\ lowered = <<>>
    /\ returned = <<>>
    /\ letlog = [t \in Threads |-> NoLet]
    /\ sc = ScopeNew
    /\ pushed = <<>>
    /\ popped = {}
    /\ lastget = NoGot
    /\ InitRest
    /\ stdin \in Inputs

NextConsole ==
    \E t \in Threads :
        \/ buildin_call(t)
        \/ buildin_print_lock(t)
        \/ buildin_print_write(t)
        \/ buildin_print_flush(t)
        \/ buildin_readline_lock(t)
        \/ buildin_readline_prompt(t)
        \/ buildin_readline_read(t)
        \/ file_buildin_print_lock(t)
        \/ file_buildin_print_write(t)
        \/ file_buildin_print_return(t)
        \/ file_buildin_readline_prompt(t)
        \/ file_buildin_readline_lock(t)
        \/ file_buildin_readline_read(t)

SpecConsole == InitConsole /\ [][NextConsole]_vars

\* the dispatcher alone
NextBuildin == buildin_request

SpecBuildin == Init /\ [][NextBuildin]_vars

\* resolve_imports alone, over every list of declarations
InitImports ==
    /\ mode = "compile"
    /\ live = {"t1"}
    /\ functions = <<>>
    /\ fnlock = [readers |-> {}, writer |-> NoThread]
    /\ stack = [t \in Threads |-> <<>>]
    /\ ctl = [t \in Threads |-> Idle]
    /\ scopes = [t \in Threads |-> <<>>]
    /\ requests = [t \in Threads |-> 0]
    /\ reserved = <<>>
    /\ lowered = <<>>
    /\ returned = <<>>
    /\ letlog = [t \in Threads |-> NoLet]
    /\ sc = ScopeNew
    /\ pushed = <<>>
    /\ popped = {}
    /\ lastget = NoGot
    /\ calllog = <<>>
    /\ stdout = <<>>
    /\ stdin = <<>>
    /\ console = FreeConsole
    /\ iocalls = [t \in Threads |-> 0]
    /\ readlog = <<>>
    /\ bres = NoRequest
    /\ imp \in {ImportsOf(decls) : decls \in UNION {[1..n -> ImportDecls] : n \in 0..MaxImports}}
    /\ mir = NoMir

NextImports == resolve_import \/ resolve_imports_return

SpecImports == InitImports /\ [][NextImports]_vars

\* the Instruction Evaluator alone
NextMir == mir_evaluate

InitMir == Init /\ mode = "compile"

SpecMir == InitMir /\ [][NextMir]_vars


(***************************************************************************)
(* Properties.                                                             *)
(***************************************************************************)
Count(log, x) == Cardinality({i \in 1..Len(log) : log[i] = x})

\* C1: once compile has returned successfully for an SSID, every later
\* return for that SSID gives the same function index and return type, and
\* the SSID was reserved once and its body lowered once in all.
C1_CacheIdempotence ==
    \A i, j \in 1..Len(returned) :
        (i < j /\ returned[i].ssid = returned[j].ssid) =>
            /\ returned[j].id = returned[i].id
            /\ returned[j].ty = returned[i].ty
            /\ Count(lowered, returned[i].ssid) = 1
            /\ Count(reserved, returned[i].ssid) = 1

C1_Witness ==
    \E i, j \in 1..Len(returned) : i < j /\ returned[i].ssid = returned[j].ssid

CompileFrames(t) == SelectSeq(stack[t], LAMBDA f : f.k = "compile")

\* the request on top of the stack is for the SSID its caller is compiling
DirectRecursion(t) ==
    /\ InFrame(t, "compile")
    /\ Len(CompileFrames(t)) >= 2
    /\ CompileFrames(t)[Len(CompileFrames(t)) - 1].ssid = Top(t).ssid

\* the request on top of the stack is for an SSID being compiled further up
\* the stack, beyond its caller
MutualRecursion(t) ==
    /\ InFrame(t, "compile")
    /\ \E i \in 1..(Len(CompileFrames(t)) - 2) : CompileFrames(t)[i].ssid = Top(t).ssid

\* C3: a compile request for the SSID its own caller is compiling does not
\* abort (it is answered with the reserved index).
C3_DirectRecursion ==
    \A t \in Threads : DirectRecursion(t) => ctl[t].op # "panic"

\* C4: a compile request for an SSID that is Reserved further up the call
\* stack (f calls g, g calls f) does not abort.
C4_MutualRecursion ==
    \A t \in Threads : MutualRecursion(t) => ctl[t].op # "panic"

\* C5: under every interleaving of concurrent requests, an SSID is reserved
\* at most once and its body is lowered at most once.
C5_ReservedAndLoweredOnce ==
    /\ \A i \in 1..Len(reserved) : Count(reserved, reserved[i]) = 1
    /\ \A i \in 1..Len(lowered) : Count(lowered, lowered[i]) = 1

\* C6: the Function Store only grows; the only change of an entry is
\* Partial -> Complete under the same SSID; a Complete entry never changes.
C6_StoreGrowsOnly ==
    [][/\ Len(functions') >= Len(functions)
       /\ \A i \in 1..Len(functions) :
             \/ functions'[i] = functions[i]
             \/ /\ functions[i].info = "Partial"
                /\ functions'[i].info = "Complete"
                /\ functions'[i].ssid = functions[i].ssid]_vars

C6_Witness ==
    /\ Len(functions) >= 3
    /\ functions[1].info = "Complete"
    /\ functions[2].info = "Complete"
    /\ functions[3].info = "Partial"

RECURSIVE LetChain(_, _, _, _)
\* `se` is the NewLocalVar node of binding j of n, wrapping the node of
\* binding j + 1; the bindings of a function body take the slots after its
\* `base` parameters
LetChain(se, j, n, base) ==
    IF j > n THEN TRUE
    ELSE /\ se.instr.op = "NewLocalVar"
         /\ se.instr.var_index = base + j - 1
         /\ LetChain(se.instr.body, j + 1, n, base)

\* C7: the tree of a let with n bindings is n nested NewLocalVar nodes, the
\* first binding outermost, each wrapping the next: checked on every
\* finished function whose body is a let.
C7_LetTreeNested ==
    \A i \in 1..Len(functions) :
        LET f == GetSymbol(functions[i].ssid[1])
        IN  (functions[i].info = "Complete" /\ f.body.k = "Let") =>
                LetChain(functions[i].body, 1, Len(f.body.definitions),
                         Min(Len(f.args), Len(functions[i].ssid[2])))

\* C8: a let that returns successfully leaves the scope exactly as it found
\* it.
C8_ScopeRestored ==
    \A t \in Threads : letlog[t].ok => letlog[t].exit = letlog[t].entry

C8_Witness ==
    \E t \in Threads : letlog[t].ok /\ letlog[t].n >= 2 /\ letlog[t].entry # <<>>

\* the value of the youngest push of that name that no pop has returned
Expected(name) ==
    LET alive == {k \in 1..Len(pushed) : pushed[k].name = name /\ pushed[k].item \notin popped}
    IN  IF alive = {} THEN <<>>
        ELSE <<pushed[CHOOSE k \in alive : \A l \in alive : l <= k].item>>

\* C9: after any sequence of pushes and pops, get(name) returns the binding
\* pushed most recently among those not yet popped, or none.
C9_Shadowing ==
    lastget.name # "" => lastget.res = Expected(lastget.name)

C9_Witness ==
    /\ lastget.name # ""
    /\ lastget.res # <<>>
    /\ popped # {}
    /\ \E k \in 1..Len(pushed) :
          /\ pushed[k].name = lastget.name
          /\ pushed[k].item \notin popped
          /\ pushed[k].item # lastget.res[1]

\* the single-segment name the thread is about to resolve, "" if none
Resolving(t) ==
    IF ctl[t].op = "expr" /\ ctl[t].e.k = "FullIdentifier" /\ Len(ctl[t].e.path) = 1
    THEN ctl[t].e.path[1]
    ELSE IF ctl[t].op = "dispatch" /\ Len(Top(t).fc.function_name) = 1
              /\ (IF mode = "compile" THEN check_buildin_func(Top(t).fc, Top(t).args)
                  ELSE file_check_buildin_func(Top(t).fc, Top(t).args)) = <<>>
         THEN Top(t).fc.function_name[1]
         ELSE ""

ResolvingLookup(t) == IF ctl[t].op = "expr" THEN ctl[t].lookup ELSE Top(t).lookup

BoundInScope(t, name) == \E i \in 1..Len(CurScope(t)) : CurScope(t)[i].name = name

\* the candidates are one binding of the scope with that name, nothing else
OnlyScopeBinding(t, name, candidates) ==
    /\ Len(candidates) = 1
    /\ candidates[1].op = "Item"
    /\ \E i \in 1..Len(CurScope(t)) :
          CurScope(t)[i].name = name /\ CurScope(t)[i].item = candidates[1].item

\* C10: a single-segment name bound in the scope resolves to exactly one
\* candidate, the scope binding, whatever the module and the imports hold.
C10_LexicalPrecedence ==
    \A t \in live :
        (Resolving(t) # "" /\ BoundInScope(t, Resolving(t))) =>
            IF mode = "compile"
            THEN OnlyScopeBinding(t, Resolving(t),
                     resolve_symbol(<<Resolving(t)>>, ResolvingLookup(t), CurScope(t)))
            ELSE /\ file_resolve_symbol(<<Resolving(t)>>, CurScope(t)).ok
                 /\ OnlyScopeBinding(t, Resolving(t),
                        file_resolve_symbol(<<Resolving(t)>>, CurScope(t)).val)

C10_Witness ==
    \E t \in live :
        /\ mode = "compile"
        /\ Resolving(t) # "" /\ BoundInScope(t, Resolving(t))
        /\ ModuleFind(ResolvingLookup(t).idmodule, Resolving(t)) # <<>>
        /\ Resolving(t) \in DOMAIN LookupImports(ResolvingLookup(t))

\* the name carries one of the two spellings of the built-in prefix
HasPrefix(name) == StartsWith(name, "buildin_") \/ StartsWith(name, "Buildin_")

\* C11: a call is answered by the Built-in Dispatcher exactly when its name
\* is one segment carrying the built-in prefix: such a call never goes on to
\* resolve_symbol, and a call of more than one segment is never answered as
\* a built-in.
C11_BuiltinPrecedence ==
    \A i \in 1..Len(calllog) :
        (calllog[i].ev = "buildin") <=>
            (Len(calllog[i].path) = 1 /\ HasPrefix(calllog[i].path[1]))

C11_Witness ==
    /\ mode = "compile"
    /\ \E i \in 1..Len(calllog) :
          /\ calllog[i].ev = "buildin"
          /\ ModuleFind(IdApp, calllog[i].path[1]) # <<>>
          /\ calllog[i].path[1] \in DOMAIN AppImports
          /\ \E f \in 1..Len(AppItems) :
                /\ calllog[i].path[1] \in {AppItems[f].args[a] : a \in 1..Len(AppItems[f].args)}
                /\ Call(calllog[i].path, <<FullIdentifier(calllog[i].path)>>) = AppItems[f].body
    /\ \E j \in 1..Len(calllog) :
          /\ calllog[j].ev = "resolve"
          /\ Len(calllog[j].path) > 1
          /\ HasPrefix(calllog[j].path[1])

\* the call on top of the stack is no built-in and its name has no candidate
ZeroCandidates(t) ==
    /\ InFrame(t, "call")
    /\ IF mode = "compile"
       THEN /\ check_buildin_func(Top(t).fc, Top(t).args) = <<>>
            /\ resolve_symbol(Top(t).fc.function_name, Top(t).lookup, CurScope(t)) = <<>>
       ELSE /\ file_check_buildin_func(Top(t).fc, Top(t).args) = <<>>
            /\ file_resolve_symbol(Top(t).fc.function_name, CurScope(t)) = Ok(<<>>)

\* C12: a call whose name resolves to zero candidates does not abort on the
\* empty candidate list (it hands a 'not found' error to its caller).
C12_NotFoundIsRecoverable ==
    \A t \in live :
        ZeroCandidates(t) =>
            ~(ctl[t].op = "panic" /\ ctl[t].msg = "unwrap on a None value")

\* a one-segment name behind the prefix that names no built-in
UnknownBuildin(path) ==
    /\ Len(path) = 1
    /\ HasPrefix(path[1])
    /\ SubSeq(path[1], 9, Len(path[1])) \notin {"str_concat", "identity", "readline", "print"}

\* C18: a call of a one-segment name that carries the prefix and names no
\* built-in returns the wrong-built-in error holding the whole identifier;
\* the step resolves nothing, writes and reads nothing and leaves the
\* Function Store alone.
C18_WrongBuildin ==
    [][\A t \in live :
          (/\ ctl[t].op = "dispatch"
           /\ InFrame(t, "call")
           /\ UnknownBuildin(Top(t).fc.function_name)
           /\ ctl'[t] # ctl[t])
          => /\ ctl'[t] = Err(WrongBuildin(Top(t).fc.function_name[1]))
             /\ stack'[t] = SubSeq(stack[t], 1, Len(stack[t]) - 1)
             /\ calllog' = Append(calllog, [t |-> t, path |-> Top(t).fc.function_name,
                                            ev |-> "buildin"])
             /\ <<stdout, stdin, functions, scopes>>' = <<stdout, stdin, functions, scopes>>]_vars

C18_Witness ==
    \E t \in live :
        /\ ctl[t] = Err(WrongBuildin("buildin_nope"))
        /\ calllog # <<>>
        /\ calllog[Len(calllog)] = [t |-> t, path |-> <<"buildin_nope">>, ev |-> "buildin"]
        /\ ScopeGet(CurScope(t), "buildin_nope") # <<>>
        /\ ModuleFind(IdApp, "buildin_nope") # <<>>

\* the chunks i and k of the output are written by one print call
SamePrint(i, k) ==
    /\ stdout[i].op = "buildin_print"
    /\ stdout[k].op = "buildin_print"
    /\ stdout[i].t = stdout[k].t
    /\ stdout[i].call = stdout[k].call

\* C13: the chunks written by one print call lie next to each other in the
\* output: no chunk of another print call stands between two of them.
C13_PrintContiguous ==
    \A i \in 1..Len(stdout) : \A j \in 1..Len(stdout) : \A k \in 1..Len(stdout) :
        (i < j /\ j < k /\ SamePrint(i, k) /\ stdout[j].op = "buildin_print")
            => SamePrint(i, j)

\* the same, for the one Mutex of the compiler only
C13_CompilerPrintContiguous == mode = "compile" => C13_PrintContiguous

\* C14: once a readline has written its prompt, until its read ends no other
\* console user writes to the output or takes bytes from the input.
C14_PromptThenReadAtomic ==
    [][\A t \in live :
          (ctl[t].op = "buildin_readline" /\ ctl[t].prompted)
              => /\ stdout' = stdout
                 /\ (stdin' = stdin \/ ctl'[t] # ctl[t])]_vars

\* the same, for the one Mutex of the compiler only
C14_CompilerPromptThenReadAtomic ==
    [][mode = "compile" =>
          \A t \in live :
              (ctl[t].op = "buildin_readline" /\ ctl[t].prompted)
                  => /\ stdout' = stdout
                     /\ (stdin' = stdin \/ ctl'[t] # ctl[t])]_vars

\* the input holds a newline byte
HasNewLine(bytes) == \E n \in 1..Len(bytes) : bytes[n] = NewLine

\* the place of the first newline byte of the input
FirstNewLine(bytes) ==
    CHOOSE n \in 1..Len(bytes) :
        bytes[n] = NewLine /\ \A m \in 1..(n - 1) : bytes[m] # NewLine

\* C15: a readline that returns gives the text of the input bytes before the
\* first newline byte, and leaves the input at the byte after that newline;
\* the next readline starts there, so it returns the next line.
C15_ReadlineLine ==
    /\ \A i \in 1..Len(readlog) :
          /\ HasNewLine(readlog[i].start)
          /\ LET n == FirstNewLine(readlog[i].start)
             IN  /\ readlog[i].res = FromUtf8(SubSeq(readlog[i].start, 1, n - 1))
                 /\ readlog[i].rest = SubSeq(readlog[i].start, n + 1, Len(readlog[i].start))
    /\ \A i \in 1..(Len(readlog) - 1) : readlog[i + 1].start = readlog[i].rest
    /\ readlog # <<>> => stdin = readlog[Len(readlog)].rest \/ \E t \in live : ctl[t].op = "buildin_readline"

C15_Witness ==
    /\ Len(readlog) = 2
    /\ readlog[1].start = <<97, 98, 10, 98, 10>>
    /\ readlog[1].res = "ab"
    /\ readlog[2].res = "b"
    /\ stdin = <<>>

\* the strings of a list of string values, one after the other
RECURSIVE Concatenation(_)
Concatenation(args) ==
    IF args = <<>> THEN "" ELSE Head(args).s \o Concatenation(Tail(args))

\* the place of the first argument that is no string
FirstNonString(args) ==
    CHOOSE n \in 1..Len(args) :
        args[n].t # "String" /\ \A m \in 1..(n - 1) : args[m].t = "String"

\* the request names str_concat
IsStrConcat(path) == path \in {<<"buildin_str_concat">>, <<"Buildin_str_concat">>}

\* C16: str_concat of strings is their concatenation in order (the empty
\* string for no argument); with an argument that is no string it is the
\* type error naming the type of the first such argument and "String".
C16_StrConcat ==
    IsStrConcat(bres.path) =>
        IF \A n \in 1..Len(bres.args) : bres.args[n].t = "String"
        THEN bres.res = <<Ok(IF mode = "compile"
                             THEN AsStatic(StringValue(Concatenation(bres.args)))
                             ELSE StringValue(Concatenation(bres.args)))>>
        ELSE bres.res = <<Err(TypeError(bres.args[FirstNonString(bres.args)].t, "String"))>>

C16_Witness ==
    /\ IsStrConcat(bres.path)
    /\ bres.args = <<B, VoidValue>>
    /\ bres.res = <<Err(TypeError("Bool", "String"))>>

\* str_concat of two strings and of no argument
C16_WitnessStrings ==
    /\ IsStrConcat(bres.path)
    /\ \/ bres.args = <<P, Q>> /\ bres.res = <<Ok(StringValue("pq"))>>
       \/ bres.args = <<>> /\ bres.res = <<Ok(StringValue(""))>>

\* the evaluated instruction is Custom(code, args) with constant arguments
CustomOfConstants(code) ==
    /\ mir.done
    /\ mir.op.op = "Custom"
    /\ mir.op.code = code
    /\ \A n \in 1..Len(mir.op.args) : mir.op.args[n].instr.op = "Const"

\* the values of the constant arguments
ArgumentValues == [n \in 1..Len(mir.op.args) |-> mir.op.args[n].instr.v]

\* C17: Custom(StrConcat, args) yields what str_concat yields on the values
\* of the arguments: their concatenation, or no value when one of them is no
\* string; Custom(Readline, []) yields the line without its newline.
C17_CustomMirrorsBuildin ==
    /\ CustomOfConstants("StrConcat") =>
          LET buildin == file_buildin_str_concat(ArgumentValues)
          IN  IF buildin.ok
              THEN mir.res.panic = "" /\ mir.res.val = buildin.val
              ELSE mir.res.panic # ""
    /\ (/\ CustomOfConstants("Readline")
        /\ mir.op.args = <<>>
        /\ HasNewLine(mir.input)
        /\ ValidUtf8(SubSeq(mir.input, 1, FirstNewLine(mir.input) - 1)))
          => /\ mir.res.panic = ""
             /\ mir.res.val =
                  StringValue(FromUtf8(SubSeq(mir.input, 1, FirstNewLine(mir.input) - 1)))

\* the part of C17 on str_concat alone
C17_StrConcatTypeError ==
    CustomOfConstants("StrConcat") =>
        (file_buildin_str_concat(ArgumentValues).ok <=> mir.res.panic = "")

\* the part of C17 on readline alone
C17_ReadlineWithoutNewLine ==
    (CustomOfConstants("Readline") /\ mir.op.args = <<>> /\ mir.res.panic = "")
        => \A k \in 1..Len(mir.res.val.s) : SubSeq(mir.res.val.s, k, k) # "\n"

\* the part of C17 on the order of the arguments: each is evaluated once,
\* left to right, before the built-in acts
C17_ArgumentsLeftToRight ==
    (mir.done /\ mir.op.op = "Custom" /\ mir.op.code = "Print"
        /\ mir.op.args = <<StaticExpression(Custom("Print", <<StaticExpression(Const(P), "String")>>), "Void"),
                           StaticExpression(Custom("Print", <<StaticExpression(Const(Q), "String")>>), "Void")>>)
        => SubSeq(mir.res.con.out, 1, 2) = <<"p", "q">> /\ Len(mir.res.con.out) = 3

\* every name an import declaration or the dependency map holds
ImportNames ==
    UNION { {d.path[k] : k \in 1..Len(d.path)} \cup {d.items.names[k] : k \in 1..Len(d.items.names)}
            : d \in ImportDecls }
    \cup UNION { {DepMap[lib][k] : k \in 1..Len(DepMap[lib])} : lib \in DOMAIN DepMap }

\* a library import: the dependency map's path of the library, then the rest
\* of the import path; a project import: the base path, then the import path
DeclaredPath(d) ==
    IF d.is_lib THEN DepMap[d.path[1]] \o SubSeq(d.path, 2, Len(d.path))
    ELSE BasePath \o d.path

\* the base paths the declaration d gives the name, one for each time the
\* declaration names it
PathsFrom(d, name) ==
    IF d.items.sel = "This"
    THEN (IF DeclaredPath(d)[Len(DeclaredPath(d))] = name
          THEN <<SubSeq(DeclaredPath(d), 1, Len(DeclaredPath(d)) - 1)>>
          ELSE <<>>)
    ELSE [k \in 1..Len(SelectSeq(d.items.names, LAMBDA s : s = name)) |-> DeclaredPath(d)]

\* the base paths the first n declarations give the name, in declaration order
RECURSIVE PathsOf(_, _, _)
PathsOf(decls, n, name) ==
    IF n = 0 THEN <<>> ELSE PathsOf(decls, n - 1, name) \o PathsFrom(decls[n], name)

\* the base path the declaration d gives the name, once if it names it at all
PathFromOnce(d, name) == IF PathsFrom(d, name) = <<>> THEN <<>> ELSE <<PathsFrom(d, name)[1]>>

RECURSIVE PathsOfOnce(_, _, _)
PathsOfOnce(decls, n, name) ==
    IF n = 0 THEN <<>> ELSE PathsOfOnce(decls, n - 1, name) \o PathFromOnce(decls[n], name)

\* C19 as stated: the entry of a name lists one base path for each import
\* declaration that brings the name in, in declaration order.
C19_OnePathPerDeclaration ==
    imp.st = "Ok" =>
        \A name \in DOMAIN imp.imports :
            imp.imports[name] = PathsOfOnce(imp.decls, Len(imp.decls), name)

\* C19: the import table holds, for every name, the base path of every
\* declaration that brings the name in, in declaration order, none replaced
\* and none merged, once for each time the declaration names it; a name no
\* declaration brings in has no entry.
C19_ImportsPreserveAmbiguity ==
    imp.st \in {"run", "Ok"} =>
        /\ DOMAIN imp.imports \subseteq ImportNames
        /\ \A name \in ImportNames :
              IF PathsOf(imp.decls, imp.i - 1, name) = <<>>
              THEN name \notin DOMAIN imp.imports
              ELSE /\ name \in DOMAIN imp.imports
                   /\ imp.imports[name] = PathsOf(imp.decls, imp.i - 1, name)

C19_Witness ==
    /\ imp.st = "Ok"
    /\ imp.decls = <<Import(TRUE, <<"std", "a", "x">>, SelectionThis),
                     Import(FALSE, <<"m">>, SelectionItems(<<"x", "y">>))>>
    /\ imp.imports["x"] = << <<"std", "v1", "a">>, <<"app", "m">> >>
    /\ imp.imports["y"] = << <<"app", "m">> >>

\* use a.b.x and use a.c.x: both paths kept
C19_WitnessSameLibrary ==
    /\ imp.st = "Ok"
    /\ imp.imports = ("x" :> << <<"std", "v1", "a">>, <<"std", "v1", "b">> >>)

\* the expression inside the parentheses of one-element tuples
RECURSIVE Unwrapped(_)
Unwrapped(e) == IF e.k = "Tuple" /\ Len(e.values) = 1 THEN Unwrapped(e.values[1]) ELSE e

\* the call on top of the stack of t is about to evaluate an argument
EvaluatesArgument(t) == ctl[t].op = "expr" /\ InFrame(t, "call")

\* an argument of the call on top of the stack of t has failed
ArgumentFailed(t) == ctl[t].op = "ret" /\ ~ctl[t].ok /\ InFrame(t, "call")

\* C20: the arguments of a call are evaluated one by one, left to right, and
\* the built-in check and the resolution of the callee happen only once all
\* of them have a value; an argument's error pops the call and goes to the
\* caller unchanged, with no dispatch and no later argument evaluated.
C20_ArgumentsFirst ==
    [][\A t \in live :
          /\ EvaluatesArgument(t) =>
                /\ Len(Top(t).args) = Top(t).i - 1
                /\ Unwrapped(ctl[t].e) = Unwrapped(Top(t).fc.args[Top(t).i])
          /\ (ctl[t].op = "dispatch" /\ InFrame(t, "call")) =>
                Len(Top(t).args) = Len(Top(t).fc.args)
          /\ (ArgumentFailed(t) /\ <<stack[t], ctl[t]>>' # <<stack[t], ctl[t]>>) =>
                /\ stack'[t] = SubSeq(stack[t], 1, Len(stack[t]) - 1)
                /\ ctl'[t] = ctl[t]
                /\ calllog' = calllog
          /\ (calllog' # calllog /\ <<stack[t], ctl[t]>>' # <<stack[t], ctl[t]>>) =>
                /\ ctl[t].op = "dispatch" /\ InFrame(t, "call")
                /\ Len(calllog') = Len(calllog) + 1
                /\ calllog'[Len(calllog')].path = Top(t).fc.function_name]_vars

C20_Witness ==
    \E t \in live :
        /\ ArgumentFailed(t)
        /\ Top(t).fc.function_name = <<"buildin_str_concat">>
        /\ Len(Top(t).fc.args) = 3
        /\ Top(t).i = 2
        /\ Len(Top(t).args) = 1
        /\ \A i \in 1..Len(calllog) : calllog[i].path # <<"buildin_str_concat">> /\ calllog[i].path # <<"lit">>
        /\ \E i \in 1..Len(calllog) : calllog[i].path = <<"callval">>

\* the same failure in front of a callee that has no candidate: the error of
\* the argument is returned, the resolution never runs
C20_WitnessUnresolved ==
    \E t \in live :
        /\ ArgumentFailed(t)
        /\ Top(t).fc.function_name = <<"missing">>

\* the names of the first k bindings of the let of frame f
LetNames(f, k) == [j \in 1..k |-> f.expr.definitions[j].ident]

\* the names of a scope, oldest first
NamesOf(values) == [j \in 1..Len(values) |-> values[j].name]

\* frame p of t is a let and the scope in use is the scope it works on
LetInScope(t, p) ==
    /\ stack[t][p].k = "let"
    /\ \A q \in (p + 1)..Len(stack[t]) : stack[t][q].k \in {"let", "call"}

\* the scope holds what the let of frame f found and after it the first
\* f.i - 1 bindings of the let
ScopeOfLet(f, values) ==
    /\ Len(values) >= Len(f.entry) + f.i - 1
    /\ SubSeq(values, 1, Len(f.entry)) = f.entry
    /\ NamesOf(SubSeq(values, Len(f.entry) + 1, Len(f.entry) + f.i - 1)) = LetNames(f, f.i - 1)

\* C21: while the value of binding i of a let is compiled the scope is the
\* enclosing scope and the bindings 1..i-1 of the let, nothing more; while
\* the body is compiled it holds all n; the values are compiled in order,
\* one turn each, and the body once: when the body is back the let returns.
C21_SequentialLet ==
    [][\A t \in live :
          /\ \A p \in 1..Len(stack[t]) :
                LetInScope(t, p) =>
                    /\ stack[t][p].i \in 1..(Len(stack[t][p].expr.definitions) + 1)
                    /\ ScopeOfLet(stack[t][p], CurScope(t))
          /\ (InFrame(t, "let") /\ ctl[t].op = "expr") =>
                Len(CurScope(t)) = Len(Top(t).entry) + Top(t).i - 1
          /\ (InFrame(t, "let") /\ ctl[t].op = "ret"
                /\ <<stack[t], ctl[t]>>' # <<stack[t], ctl[t]>>) =>
                IF ctl[t].ok /\ Top(t).i <= Len(Top(t).expr.definitions)
                THEN /\ Len(stack'[t]) = Len(stack[t])
                     /\ stack'[t][Len(stack[t])].i = Top(t).i + 1
                     /\ stack'[t][Len(stack[t])].expr = Top(t).expr
                     /\ ctl'[t].op = "expr"
                     /\ ctl'[t].e = IF Top(t).i < Len(Top(t).expr.definitions)
                                    THEN Top(t).expr.definitions[Top(t).i + 1].value
                                    ELSE Top(t).expr.body
                ELSE stack'[t] = SubSeq(stack[t], 1, Len(stack[t]) - 1)]_vars

\* the body of a let of two bindings inside a function of one parameter
C21_Witness ==
    \E t \in live :
        /\ InFrame(t, "let") /\ ctl[t].op = "expr"
        /\ Len(Top(t).expr.definitions) = 2 /\ Top(t).i = 3
        /\ ctl[t].e = Top(t).expr.body
        /\ Len(Top(t).entry) = 1
        /\ NamesOf(CurScope(t)) = <<"x", "y", "x">>

\* the value of the second binding: the first binding is in scope, the
\* second is not
C21_WitnessSecondBinding ==
    \E t \in live :
        /\ InFrame(t, "let") /\ ctl[t].op = "expr"
        /\ Top(t).i = 2
        /\ NamesOf(CurScope(t)) = <<"x", "y">>

RECURSIVE ImportMatches(_, _, _)
\* for every base path from i on: the functions called by the path's final
\* segment in the module named by the base path and the path's remaining
\* segments, where that module exists
ImportMatches(path, imports, i) ==
    IF i > Len(imports) THEN <<>>
    ELSE (IF ResolveModule(imports[i] \o Tail(path))
          THEN FunctionCandidates(ModuleFind(imports[i] \o Tail(path), path[Len(path)]))
          ELSE <<>>)
         \o ImportMatches(path, imports, i + 1)

\* the compiler is about to resolve the name of the call on top of the stack
\* of t, and the scope does not answer it
ResolvesCallee(t) ==
    /\ mode = "compile"
    /\ ctl[t].op = "dispatch" /\ InFrame(t, "call")
    /\ check_buildin_func(Top(t).fc, Top(t).args) = <<>>
    /\ ~(Len(Top(t).fc.function_name) = 1
         /\ ScopeGet(CurScope(t), Top(t).fc.function_name[1]) # <<>>)

\* the candidates resolve_symbol has for the call on top of the stack of t are
\* the matches of the current module and after them those of the imports
ImportsAppended(t) ==
    LET path == Top(t).fc.function_name
        imports == LookupImports(Top(t).lookup)
    IN  resolve_symbol(path, Top(t).lookup, CurScope(t))
          = (IF Len(path) = 1
             THEN FunctionCandidates(ModuleFind(Top(t).lookup.idmodule, path[1]))
             ELSE <<>>)
            \o (IF path[1] \in DOMAIN imports
                THEN ImportMatches(path, imports[path[1]], 1)
                ELSE <<>>)

\* C22: for a path of any length whose first segment is imported, the
\* candidates are those of the current module followed, for every base path
\* in turn, by the functions named by the path's final segment in the module
\* base path + remaining segments.
C22_ImportCandidates == \A t \in live : ResolvesCallee(t) => ImportsAppended(t)

\* the same for names of one segment only
C22_ImportCandidatesOneSegment ==
    \A t \in live :
        (ResolvesCallee(t) /\ Len(Top(t).fc.function_name) = 1) => ImportsAppended(t)

\* a name of one segment found in the module and in two import sources
C22_WitnessOneSegment ==
    \E t \in live :
        /\ ResolvesCallee(t)
        /\ Top(t).fc.function_name = <<"dup">>
        /\ Len(resolve_symbol(<<"dup">>, Top(t).lookup, CurScope(t))) = 2

\* the top-level compile_symbol call of t has returned a value or an error
TopLevelReturned(t) == stack[t] = <<>> /\ ctl[t].op = "ret"

\* no entry of the Function Store is Reserved
NoneReserved == \A i \in 1..Len(functions) : functions[i].info # "Partial"

\* C23: whenever a top-level compile_symbol call has returned, with a value
\* or with a recoverable error, no entry of the Function Store is Reserved.
C23_NoStaleReserved ==
    mode = "compile" => \A t \in live : TopLevelReturned(t) => NoneReserved

\* the same for calls that return a value, with no failed call before them
C23_NoneReservedAfterSuccess ==
    mode = "compile" =>
        \A t \in live :
            (TopLevelReturned(t) /\ ctl[t].ok /\ Len(returned) = Len(reserved)) => NoneReserved

\* a later request for the SSID left Reserved by a failed call
C23_StaleReservedMet ==
    \E t \in live :
        /\ ctl[t] = Panic("only found partial function information during compilation")
        /\ Len(stack[t]) = 1
        /\ requests[t] = 2

\* C24: a let that returns an error leaves the scope with exactly the
\* bindings it found on entry.
C24_ScopeRestoredOnError ==
    \A t \in live :
        (letlog[t].n > 0 /\ ~letlog[t].ok) => letlog[t].exit = letlog[t].entry

\* the evaluator pops the bindings when the body fails: an error never leaves
\* all the bindings of the let behind
C24_EvaluatorPopsAfterBody ==
    \A t \in live :
        (mode = "eval" /\ letlog[t].n > 0 /\ ~letlog[t].ok)
            => Len(letlog[t].exit) < Len(letlog[t].entry) + letlog[t].n

\* the compiler returns the error of the body with every binding in scope
C24_CompilerBodyError ==
    \E t \in live :
        /\ mode = "compile"
        /\ letlog[t].n > 0 /\ ~letlog[t].ok
        /\ Len(letlog[t].exit) = Len(letlog[t].entry) + letlog[t].n

\* t holds the read lock, the write lock, of the Function Store
HoldsRead(t) == t \in fnlock.readers
HoldsWrite(t) == fnlock.writer = t

\* t is inside compile at the step pc, with nothing called from there
AtCompileStep(t, pc) == ctl[t].op = "fn" /\ InFrame(t, "compile") /\ Top(t).pc = pc

\* t lowers a body: a compile frame of t has handed its body over
LowersBody(t) == \E p \in 1..Len(stack[t]) : stack[t][p].k = "compile" /\ stack[t][p].pc = "body"

\* C25: a thread holds the read lock only in the cache check and the write
\* lock only in reserve and in the final store, never both and never while a
\* body of its own is lowered in the frame that took the lock; whoever holds
\* a lock can take its next step without a lock, so every wait for the store
\* ends and a nested request of the same thread finds the lock free of its
\* own guards.
C25_NoLockWhileLowering ==
    \A t \in Threads :
        /\ HoldsRead(t) => AtCompileStep(t, "check") /\ ~HoldsWrite(t)
        /\ HoldsWrite(t) => (AtCompileStep(t, "reserve") \/ AtCompileStep(t, "update"))
                            /\ fnlock.readers = {}
        /\ (AtCompileStep(t, "write") \/ AtCompileStep(t, "store") \/ AtCompileStep(t, "read"))
              => ~HoldsRead(t) /\ ~HoldsWrite(t)
        /\ (ctl[t].op \in {"expr", "dispatch", "ret"} \/ AtCompileStep(t, "scope"))
              => ~HoldsRead(t) /\ ~HoldsWrite(t)
        /\ HoldsRead(t) => ENABLED compile_check(t)
        /\ HoldsWrite(t) => ENABLED (compile_reserve(t) \/ compile_update(t))

\* a nested request made from a body takes the read lock while another thread
\* is at work as well
C25_Witness ==
    \E t \in Threads :
        /\ HoldsRead(t)
        /\ Len(stack[t]) > 1
        /\ LowersBody(t)
        /\ \E u \in Threads \ {t} : stack[u] # <<>>

\* C26: every Complete entry holds the argument types of its SSID, and when
\* compile stores it the scope holds one slot for each formal parameter, in
\* declaration order; also when the SSID has more or fewer argument types
\* than the function has parameters.
C26_StoredTypesAndSlots ==
    /\ \A i \in 1..Len(functions) :
          functions[i].info = "Complete" => functions[i].args = functions[i].ssid[2]
    /\ \A t \in live :
          AtCompileStep(t, "update") =>
              /\ NamesOf(CurScope(t)) = Top(t).ast.args
              /\ \A k \in 1..Len(CurScope(t)) : CurScope(t)[k].item = k - 1

\* the same for requests with as many argument types as parameters
C26_MatchingCounts ==
    /\ \A i \in 1..Len(functions) :
          (functions[i].info = "Complete"
             /\ Len(functions[i].ssid[2]) = Len(GetSymbol(functions[i].ssid[1]).args))
          => functions[i].args = functions[i].ssid[2]
    /\ \A t \in live :
          (AtCompileStep(t, "update") /\ Len(Top(t).ssid[2]) = Len(Top(t).ast.args)) =>
              /\ NamesOf(CurScope(t)) = Top(t).ast.args
              /\ \A k \in 1..Len(CurScope(t)) : CurScope(t)[k].item = k - 1

\* a Complete entry whose SSID has an argument type the entry lost
C26_TypesTruncated ==
    \E i \in 1..Len(functions) :
        /\ functions[i].info = "Complete"
        /\ functions[i].ssid[2] = <<"String">>
        /\ functions[i].args = <<>>

\* a function stored with no slot for its parameter
C26_SlotMissing ==
    \E t \in live :
        /\ AtCompileStep(t, "update")
        /\ Len(Top(t).ast.args) = 1
        /\ CurScope(t) = <<>>

====
